---- MODULE Spec2Model ----
(***************************************************************************)
(* Social graph handlers of the insta-clone server: followUser,            *)
(* unfollowUser, likePost, unlikePost, createComment and createPost, each  *)
(* modelled statement by statement against the relational store           *)
(* (PostgreSQL, READ COMMITTED): a statement issued on `db` commits on its *)
(* own, the statements of a db.transaction callback are held back until    *)
(* COMMIT and dropped on ROLLBACK, and a written row stays locked until    *)
(* the writing transaction ends.                                           *)
(***************************************************************************)
EXTENDS Integers, Sequences, FiniteSets, TLC

\* ---------------------------------------------------------------- bounds
MaxUsers == 3       \* users 1..MaxUsers exist
MaxPosts == 2       \* posts table holds at most MaxPosts rows
MaxCalls == 3       \* handler calls started in one behaviour
MaxWriteCalls == 2  \* the same, where the inputs of the calls vary most
MaxConcCalls == 2   \* the same, where followUser and likePost requests overlap
NumProcs == 2       \* requests that can be in flight at once
MaxStories == 2     \* stories table holds at most MaxStories rows
MaxMsgs == 2        \* direct_messages table holds at most MaxMsgs rows
MaxClock == 3       \* the clock is moved at most MaxClock times

Procs   == 1..NumProcs
UserIds == 1..(MaxUsers + 1)     \* ids a caller may pass; the last names no user
PostIds == 1..(MaxPosts + 1)     \* ids a caller may pass; the last names no post
FollowKeys == UserIds \X UserIds \* (follower_id, following_id)
LikeKeys   == UserIds \X PostIds \* (user_id, post_id)
MsgIds  == 1..(MaxMsgs + 1)      \* ids a caller may pass; the last names no message

VARIABLES
    users,      \* usersTable: id -> [follower_count, following_count, posts_count]
    posts,      \* postsTable: sequence (index = serial id) of [user_id, like_count, comment_count]
    follows,    \* followsTable: number of rows per (follower_id, following_id)
    likes,      \* likesTable: number of rows per (user_id, post_id)
    comments,   \* commentsTable: sequence of [user_id, post_id]
    stories,    \* storiesTable: sequence (index = serial id) of [user_id, created_at, expires_at]
    messages,   \* directMessagesTable: sequence (index = serial id) of
                \* [sender_id, receiver_id, is_read]
    clock,      \* the time in hours, as new Date() and the store's now() read it
    pc,         \* per request: the statement it is about to run
    op,         \* per request: the handler called
    arg,        \* per request: its input, <<first id, second id, <<image_url, video_url>>>>
    loc,        \* per request: the handler's local constants (query results), and the
                \* statement whose await threw
    tx,         \* per request: writes of its open transaction, not yet committed
    res,        \* per request: "ok" or the error the handler threw
    ncalls,     \* calls started so far
    pre,        \* the store as it was when the running call started (one call at a time)
    prev        \* the call that returned "ok" just before the running one, if one did,
                \* and the store before it

dbvars == <<users, posts, follows, likes, comments>>
extvars == <<stories, messages, clock>>
vars == <<users, posts, follows, likes, comments, stories, messages, clock,
          pc, op, arg, loc, tx, res, ncalls, pre, prev>>

\* ------------------------------------------------------------ the store
\* a usersTable row: the profile columns, the counters at their defaults, updated_at
ZeroUser == [username |-> "old", full_name |-> "old", bio |-> "old",
             profile_image_url |-> "old", is_private |-> "false",
             follower_count |-> 0, following_count |-> 0, posts_count |-> 0,
             updated_at |-> 0]
\* a postsTable row of user u: counters at their defaults, timestamps at the epoch
NewPost(u) == [user_id |-> u, caption |-> "old", like_count |-> 0, comment_count |-> 0,
               created_at |-> 0, updated_at |-> 0]

DB == [users |-> users, posts |-> posts, follows |-> follows,
       likes |-> likes, comments |-> comments, stories |-> stories, messages |-> messages]

\* db.select().from(usersTable).where(eq(usersTable.id, id)): the result array
SelectUser(id) == IF id \in DOMAIN users THEN <<users[id]>> ELSE <<>>
\* a select that finds a row whatever the id
SelectPostAny(id) == <<NewPost(1)>>
\* db.select().from(postsTable).where(eq(postsTable.id, id)): the result array
SelectPost(id) == IF id \in DOMAIN posts THEN <<posts[id]>> ELSE <<>>

NoTx == [open |-> FALSE, uw |-> <<>>, ins |-> {}, del |-> <<>>]
NoLoc == [r1 |-> <<>>, r2 |-> <<>>, todo |-> {}, at |-> "none", now |-> 0, out |-> <<>>]
\* an image_url / video_url as the handler receives it: null, the empty string, a url
Urls == {"null", "", "url"}
Media == Urls \X Urls            \* (image_url, video_url)
NoMedia == <<"null", "null">>
\* no media at all, and an image alone
OneImage == {NoMedia, <<"url", "null">>}
NoArg == <<0, 0, NoMedia>>

\* rows of usersTable another open transaction has written (row locks)
LockedByOther(p, u) == \E q \in Procs \ {p} : tx[q].open /\ u \in DOMAIN tx[q].uw
\* follow keys another open transaction has inserted or deleted
KeyHeldByOther(p, k) ==
    \E q \in Procs \ {p} : tx[q].open /\ (k \in tx[q].ins \/ k \in DOMAIN tx[q].del)

\* the row a transaction's UPDATE starts from: its own version, else the committed one
CurUser(p, u) == IF u \in DOMAIN tx[p].uw THEN tx[p].uw[u] ELSE users[u]

\* tx.update(usersTable).set(...).where(eq(usersTable.id, u)) inside a transaction
TxWriteUser(t, u, row) ==
    [t EXCEPT !.uw = [v \in DOMAIN t.uw \cup {u} |-> IF v = u THEN row ELSE t.uw[v]]]

\* the row of user u as created: a username of its own (the column is unique)
UserRow(u) == [ZeroUser EXCEPT !.username = "user" \o ToString(u)]
InitUsers == [u \in 1..MaxUsers |->
                IF u = 1 THEN [UserRow(u) EXCEPT !.posts_count = 1] ELSE UserRow(u)]
InitDB == [users |-> InitUsers, posts |-> <<NewPost(1)>>,
           follows |-> [k \in FollowKeys |-> 0], likes |-> [k \in LikeKeys |-> 0],
           comments |-> <<>>, stories |-> <<>>, messages |-> <<>>]
NoPrev == [op |-> "none", arg |-> NoArg, res |-> "none", pre |-> InitDB, out |-> <<>>]

\* users 1..MaxUsers exist, user 1 has made one post, nobody follows or likes,
\* no story and no message is stored
Init ==
    /\ users = InitDB.users
    /\ posts = InitDB.posts
    /\ follows = InitDB.follows
    /\ likes = InitDB.likes
    /\ comments = InitDB.comments
    /\ stories = InitDB.stories
    /\ messages = InitDB.messages
    /\ clock = 0
    /\ pc = [p \in Procs |-> "idle"]
    /\ op = [p \in Procs |-> "none"]
    /\ arg = [p \in Procs |-> NoArg]
    /\ loc = [p \in Procs |-> NoLoc]
    /\ tx = [p \in Procs |-> NoTx]
    /\ res = [p \in Procs |-> "none"]
    /\ ncalls = 0
    /\ pre = DB
    /\ prev = NoPrev

\* ------------------------------------------------------ calls and returns
Resting(p) == pc[p] \in {"idle", "done"}

\* the posts table can take the rows of the createPost calls already running and one more
PostRoom == Len(posts) + Cardinality({q \in Procs : op[q] = "createPost" /\ ~Resting(q)}) < MaxPosts

\* the stories and direct_messages tables can take one more row
StoryRoom == Len(stories) + Cardinality({q \in Procs : op[q] = "createStory" /\ ~Resting(q)}) < MaxStories
MsgRoom == Len(messages) + Cardinality({q \in Procs : op[q] = "sendDirectMessage" /\ ~Resting(q)}) < MaxMsgs

\* the inputs a procedure of the router passes to handler o: two ids and the
\* media urls
InputOf(o, a, b, m) ==
    /\ o # "markMessageAsRead" => a \in UserIds
    /\ o \notin {"createPost", "createStory"} => m = NoMedia
    /\ o \in {"followUser", "unfollowUser", "sendDirectMessage"} => b \in UserIds
    /\ o \in {"likePost", "unlikePost", "createComment"} => b \in PostIds
    /\ o \in {"createPost", "createStory"} => b = 0
    /\ o = "getUserStories" => b = 0
    /\ o = "markMessageAsRead" => a \in MsgIds /\ b \in UserIds
    /\ o = "createPost" => PostRoom
    /\ o = "createStory" => StoryRoom
    /\ o = "sendDirectMessage" => MsgRoom

\* request o with input i arrives while no other is running (requests served one
\* at a time all come through the first slot); the previous result is dropped
SeqCallWith(p, o, i, n) ==
    /\ p = 1
    /\ \A q \in Procs : Resting(q)
    /\ ncalls < n
    /\ op' = [q \in Procs |-> IF q = p THEN o ELSE "none"]
    /\ arg' = [q \in Procs |-> IF q = p THEN i ELSE NoArg]
    /\ pc' = [q \in Procs |-> IF q = p THEN "begin" ELSE "idle"]
    /\ res' = [q \in Procs |-> "none"]
    /\ loc' = [q \in Procs |-> NoLoc]
    /\ ncalls' = ncalls + 1
    /\ pre' = DB
    /\ prev' = IF \E q \in Procs : pc[q] = "done" /\ res[q] = "ok"
                THEN LET q == CHOOSE q \in Procs : pc[q] = "done" /\ res[q] = "ok"
                     IN  [op |-> op[q], arg |-> arg[q], res |-> res[q], pre |-> pre,
                          out |-> loc[q].out]
                ELSE NoPrev
    /\ UNCHANGED <<dbvars, extvars, tx>>

\* a request for one of the handlers ops, with two ids and the media urls
SeqCallUpTo(p, ops, n) ==
    /\ p = 1 /\ ncalls < n
    /\ \A q \in Procs : Resting(q)
    /\ \E o \in ops, a \in UserIds \cup MsgIds, b \in {0} \cup UserIds \cup PostIds,
          m \in Media :
         InputOf(o, a, b, m) /\ SeqCallWith(p, o, <<a, b, m>>, n)

\* the same, with at most MaxCalls calls in one behaviour
SeqCall(p, ops) == SeqCallUpTo(p, ops, MaxCalls)

\* the handler's `throw`: the catch block logs and rethrows
Throw(p, e) ==
    /\ pc' = [pc EXCEPT ![p] = "done"]
    /\ res' = [res EXCEPT ![p] = e]

\* usersTable and followsTable with the held writes of p's transaction applied
\* (TxApplyFollowsKeepsRows: the held deletes are not applied)
TxApplyUsers(p) ==
    [u \in DOMAIN users |-> IF u \in DOMAIN tx[p].uw THEN tx[p].uw[u] ELSE users[u]]
TxApplyFollowsKeepsRows(p) ==
    [k \in FollowKeys |-> follows[k] + (IF k \in tx[p].ins THEN 1 ELSE 0)]
TxApplyFollows(p) ==
    [k \in FollowKeys |->
        follows[k] + (IF k \in tx[p].ins THEN 1 ELSE 0)
                   - (IF k \in DOMAIN tx[p].del THEN tx[p].del[k] ELSE 0)]

\* a rollback that keeps what the transaction wrote so far
TxRollbackKeeps(p) ==
    /\ users' = TxApplyUsers(p)
    /\ follows' = TxApplyFollows(p)
    /\ tx' = [tx EXCEPT ![p] = NoTx]

\* ROLLBACK of db.transaction, run when its callback throws: the held writes are dropped
TxRollback(p) ==
    /\ users' = users
    /\ follows' = follows
    /\ tx' = [tx EXCEPT ![p] = NoTx]

\* COMMIT of db.transaction: the held writes become visible together
TxCommit(p) ==
    /\ pc[p] = "txCommit"
    /\ users' = TxApplyUsers(p)
    /\ follows' = TxApplyFollows(p)
    /\ tx' = [tx EXCEPT ![p] = NoTx]
    /\ pc' = [pc EXCEPT ![p] = "done"]
    /\ res' = [res EXCEPT ![p] = "ok"]
    /\ UNCHANGED <<posts, likes, comments, op, arg, loc, ncalls, pre, prev, extvars>>

\* ------------------------------------------------------------ followUser
FollowKey(p) == <<arg[p][1], arg[p][2]>>

\* a self check that is made only once the user is known to exist
FollowIsSelfLate(p) == arg[p][1] = arg[p][2] /\ arg[p][1] \in DOMAIN users
\* input.follower_id === input.following_id
FollowIsSelf(p) == arg[p][1] = arg[p][2]

\* if (input.follower_id === input.following_id) throw, before any query
FollowCheckSelf(p) ==
    /\ pc[p] = "begin" /\ op[p] = "followUser"
    /\ IF FollowIsSelf(p)
         THEN Throw(p, "SelfReference") /\ UNCHANGED <<loc, tx>>
         ELSE /\ pc' = [pc EXCEPT ![p] = "selUsers"]
              /\ loc' = [loc EXCEPT ![p].todo = {"follower", "following"}]
              /\ UNCHANGED <<res, tx>>
    /\ UNCHANGED <<dbvars, op, arg, ncalls, pre, prev, extvars>>

\* after Promise.all: the two length checks, in source order
FollowAfterUsers(p, l) ==
    IF l.todo # {}
      THEN pc' = pc /\ res' = res /\ tx' = tx
      ELSE IF Len(l.r1) = 0 \/ Len(l.r2) = 0
             THEN Throw(p, "NotFound") /\ UNCHANGED tx
             ELSE pc' = [pc EXCEPT ![p] = "selFollow"] /\ UNCHANGED <<res, tx>>

\* one of the two user selects of Promise.all completes
FollowSelectUser(p) ==
    /\ pc[p] = "selUsers" /\ op[p] = "followUser"
    /\ \E w \in loc[p].todo :
         LET l == IF w = "follower"
                    THEN [loc[p] EXCEPT !.r1 = SelectUser(arg[p][1]), !.todo = @ \ {w}]
                    ELSE [loc[p] EXCEPT !.r2 = SelectUser(arg[p][2]), !.todo = @ \ {w}]
         IN  loc' = [loc EXCEPT ![p] = l] /\ FollowAfterUsers(p, l)
    /\ UNCHANGED <<dbvars, op, arg, ncalls, pre, prev, extvars>>

\* a duplicate check that never finds a row
FollowExistsNever(p) == FALSE
\* existingFollow.length > 0
FollowExists(p) == follows[FollowKey(p)] > 0

\* existingFollow select and the duplicate check
FollowSelectExisting(p) ==
    /\ pc[p] = "selFollow" /\ op[p] = "followUser"
    /\ IF FollowExists(p)
         THEN Throw(p, "Duplicate") /\ UNCHANGED tx
         ELSE pc' = [pc EXCEPT ![p] = "txInsert"] /\ UNCHANGED <<res, tx>>
    /\ UNCHANGED <<dbvars, op, arg, loc, ncalls, pre, prev, extvars>>

\* a unique index that lets every key through
FollowKeyTakenNever(p) == FALSE
\* unique_follow: a committed row holds the key
FollowKeyTaken(p) == follows[FollowKey(p)] > 0

\* BEGIN; tx.insert(followsTable): unique_follow rejects a key already stored,
\* and waits while another transaction holds the key
FollowTxInsert(p) ==
    /\ pc[p] = "txInsert" /\ op[p] = "followUser"
    /\ ~KeyHeldByOther(p, FollowKey(p))
    /\ IF FollowKeyTaken(p)
         THEN Throw(p, "UniqueViolation") /\ TxRollback(p)
         ELSE /\ tx' = [tx EXCEPT ![p] = [NoTx EXCEPT !.open = TRUE,
                                                        !.ins = {FollowKey(p)}]]
              /\ pc' = [pc EXCEPT ![p] = "txUpdFollower"]
              /\ UNCHANGED <<res, users, follows>>
    /\ UNCHANGED <<posts, likes, comments, op, arg, loc, ncalls, pre, prev, extvars>>

\* the new following_count taken from the wrong column of the row read
FollowNewFollowingWrongColumn(p) == loc[p].r1[1].follower_count + 1
\* following_count: followerUser[0].following_count + 1
FollowNewFollowing(p) == loc[p].r1[1].following_count + 1
\* follower_count: followingUser[0].follower_count + 1
FollowNewFollower(p) == loc[p].r2[1].follower_count + 1

\* tx.update(usersTable).set({following_count: ...}).where(id = follower_id)
FollowTxUpdFollower(p) ==
    /\ pc[p] = "txUpdFollower" /\ op[p] = "followUser"
    /\ ~LockedByOther(p, arg[p][1])
    /\ tx' = [tx EXCEPT ![p] = TxWriteUser(@, arg[p][1],
                [CurUser(p, arg[p][1]) EXCEPT !.following_count = FollowNewFollowing(p),
                                                !.updated_at = clock])]
    /\ pc' = [pc EXCEPT ![p] = "txUpdFollowing"]
    /\ UNCHANGED <<dbvars, op, arg, loc, res, ncalls, pre, prev, extvars>>

\* tx.update(usersTable).set({follower_count: ...}).where(id = following_id)
FollowTxUpdFollowing(p) ==
    /\ pc[p] = "txUpdFollowing" /\ op[p] = "followUser"
    /\ ~LockedByOther(p, arg[p][2])
    /\ tx' = [tx EXCEPT ![p] = TxWriteUser(@, arg[p][2],
                [CurUser(p, arg[p][2]) EXCEPT !.follower_count = FollowNewFollower(p),
                                                !.updated_at = clock])]
    /\ pc' = [pc EXCEPT ![p] = "txCommit"]
    /\ UNCHANGED <<dbvars, op, arg, loc, res, ncalls, pre, prev, extvars>>

\* ---------------------------------------------------------- unfollowUser
\* after Promise.all: the two length checks, in source order
UnfollowAfterUsers(p, l) ==
    IF l.todo # {}
      THEN pc' = pc /\ res' = res /\ tx' = tx
      ELSE IF Len(l.r1) = 0 \/ Len(l.r2) = 0
             THEN Throw(p, "NotFound") /\ UNCHANGED tx
             ELSE pc' = [pc EXCEPT ![p] = "selFollow"] /\ UNCHANGED <<res, tx>>

\* the call starts the two user selects of Promise.all
UnfollowBegin(p) ==
    /\ pc[p] = "begin" /\ op[p] = "unfollowUser"
    /\ pc' = [pc EXCEPT ![p] = "selUsers"]
    /\ loc' = [loc EXCEPT ![p].todo = {"follower", "following"}]
    /\ UNCHANGED <<dbvars, op, arg, tx, res, ncalls, pre, prev, extvars>>

\* one of the two user selects of Promise.all completes
UnfollowSelectUser(p) ==
    /\ pc[p] = "selUsers" /\ op[p] = "unfollowUser"
    /\ \E w \in loc[p].todo :
         LET l == IF w = "follower"
                    THEN [loc[p] EXCEPT !.r1 = SelectUser(arg[p][1]), !.todo = @ \ {w}]
                    ELSE [loc[p] EXCEPT !.r2 = SelectUser(arg[p][2]), !.todo = @ \ {w}]
         IN  loc' = [loc EXCEPT ![p] = l] /\ UnfollowAfterUsers(p, l)
    /\ UNCHANGED <<dbvars, op, arg, ncalls, pre, prev, extvars>>

\* an existence check that always finds a row
UnfollowMissingNever(p) == FALSE
\* existingFollow.length === 0
UnfollowMissing(p) == follows[FollowKey(p)] = 0

\* existingFollow select and the not-found check
UnfollowSelectExisting(p) ==
    /\ pc[p] = "selFollow" /\ op[p] = "unfollowUser"
    /\ IF UnfollowMissing(p)
         THEN Throw(p, "RelationshipNotFound") /\ UNCHANGED tx
         ELSE pc' = [pc EXCEPT ![p] = "txDelete"] /\ UNCHANGED <<res, tx>>
    /\ UNCHANGED <<dbvars, op, arg, loc, ncalls, pre, prev, extvars>>

\* BEGIN; tx.delete(followsTable).where(key): every committed row of the key
UnfollowTxDelete(p) ==
    /\ pc[p] = "txDelete" /\ op[p] = "unfollowUser"
    /\ ~KeyHeldByOther(p, FollowKey(p))
    /\ tx' = [tx EXCEPT ![p] = [NoTx EXCEPT !.open = TRUE,
                 !.del = [k \in {FollowKey(p)} |-> follows[FollowKey(p)]]]]
    /\ pc' = [pc EXCEPT ![p] = "txDecFollowing"]
    /\ UNCHANGED <<dbvars, op, arg, loc, res, ncalls, pre, prev, extvars>>

\* following_count: sql`following_count - 1`, evaluated on the stored row
UnfollowNewFollowing(p) == CurUser(p, arg[p][1]).following_count - 1
\* the decrement left out
UnfollowNewFollowerKeeps(p) == CurUser(p, arg[p][2]).follower_count
\* follower_count: sql`follower_count - 1`, evaluated on the stored row
UnfollowNewFollower(p) == CurUser(p, arg[p][2]).follower_count - 1

\* tx.update(usersTable).set({following_count: ... - 1}).where(id = follower_id)
UnfollowTxDecFollowing(p) ==
    /\ pc[p] = "txDecFollowing" /\ op[p] = "unfollowUser"
    /\ ~LockedByOther(p, arg[p][1])
    /\ tx' = [tx EXCEPT ![p] = TxWriteUser(@, arg[p][1],
                [CurUser(p, arg[p][1]) EXCEPT !.following_count = UnfollowNewFollowing(p)])]
    /\ pc' = [pc EXCEPT ![p] = "txDecFollower"]
    /\ UNCHANGED <<dbvars, op, arg, loc, res, ncalls, pre, prev, extvars>>

\* tx.update(usersTable).set({follower_count: ... - 1}).where(id = following_id)
UnfollowTxDecFollower(p) ==
    /\ pc[p] = "txDecFollower" /\ op[p] = "unfollowUser"
    /\ ~LockedByOther(p, arg[p][2])
    /\ tx' = [tx EXCEPT ![p] = TxWriteUser(@, arg[p][2],
                [CurUser(p, arg[p][2]) EXCEPT !.follower_count = UnfollowNewFollower(p)])]
    /\ pc' = [pc EXCEPT ![p] = "txCommit"]
    /\ UNCHANGED <<dbvars, op, arg, loc, res, ncalls, pre, prev, extvars>>

\* ------------------------------------------- follow / unfollow, one at a time
FollowOps == {"followUser", "unfollowUser"}

FollowSteps(p) ==
    \/ FollowCheckSelf(p)
    \/ FollowSelectUser(p)
    \/ FollowSelectExisting(p)
    \/ FollowTxInsert(p)
    \/ FollowTxUpdFollower(p)
    \/ FollowTxUpdFollowing(p)
    \/ UnfollowBegin(p)
    \/ UnfollowSelectUser(p)
    \/ UnfollowSelectExisting(p)
    \/ UnfollowTxDelete(p)
    \/ UnfollowTxDecFollowing(p)
    \/ UnfollowTxDecFollower(p)
    \/ TxCommit(p)

CallFollowSeq(p) == SeqCall(p, FollowOps)

NextFollow == \E p \in Procs : CallFollowSeq(p) \/ FollowSteps(p)

SpecFollow == Init /\ [][NextFollow]_vars

\* ---------------------------------------------------------------- likePost
LikeKey(p) == <<arg[p][1], arg[p][2]>>

\* a statement issued on `db` writes a users row only once no transaction holds it
UserRowFree(p, u) == ~LockedByOther(p, u)

\* user select and its length check
LikeSelectUser(p) ==
    /\ pc[p] = "begin" /\ op[p] = "likePost"
    /\ loc' = [loc EXCEPT ![p].r1 = SelectUser(arg[p][1])]
    /\ IF Len(SelectUser(arg[p][1])) = 0
         THEN Throw(p, "NotFound")
         ELSE pc' = [pc EXCEPT ![p] = "selPost"] /\ UNCHANGED res
    /\ UNCHANGED <<dbvars, op, arg, tx, ncalls, pre, prev, extvars>>

\* post select and its length check
LikeSelectPost(p) ==
    /\ pc[p] = "selPost" /\ op[p] = "likePost"
    /\ loc' = [loc EXCEPT ![p].r2 = SelectPost(arg[p][2])]
    /\ IF Len(SelectPost(arg[p][2])) = 0
         THEN Throw(p, "NotFound")
         ELSE pc' = [pc EXCEPT ![p] = "selLike"] /\ UNCHANGED res
    /\ UNCHANGED <<dbvars, op, arg, tx, ncalls, pre, prev, extvars>>

\* a duplicate check that never finds a row
LikeExistsNever(p) == FALSE
\* existingLike.length > 0
LikeExists(p) == likes[LikeKey(p)] > 0

\* existingLike select and the already-liked check
LikeSelectExisting(p) ==
    /\ pc[p] = "selLike" /\ op[p] = "likePost"
    /\ IF LikeExists(p)
         THEN Throw(p, "Duplicate")
         ELSE pc' = [pc EXCEPT ![p] = "insert"] /\ UNCHANGED res
    /\ UNCHANGED <<dbvars, op, arg, loc, tx, ncalls, pre, prev, extvars>>

\* a unique index that lets every key through
LikeKeyTakenNever(p) == FALSE
\* unique_user_post_like: a row holds the key
LikeKeyTaken(p) == likes[LikeKey(p)] > 0

\* db.insert(likesTable): committed at once; unique_user_post_like rejects a stored key
LikeInsert(p) ==
    /\ pc[p] = "insert" /\ op[p] = "likePost"
    /\ IF LikeKeyTaken(p)
         THEN Throw(p, "UniqueViolation") /\ UNCHANGED likes
         ELSE /\ likes' = [likes EXCEPT ![LikeKey(p)] = @ + 1]
              /\ pc' = [pc EXCEPT ![p] = "update"]
              /\ UNCHANGED res
    /\ UNCHANGED <<users, posts, follows, comments, op, arg, loc, tx, ncalls, pre, prev, extvars>>

\* the new like_count taken from the wrong column of the row read
LikeNewCountWrongColumn(p) == loc[p].r2[1].comment_count + 1
\* like_count: post[0].like_count + 1
LikeNewCount(p) == loc[p].r2[1].like_count + 1

\* db.update(postsTable).set({like_count: ...}).where(id = post_id), then return
LikeUpdCount(p) ==
    /\ pc[p] = "update" /\ op[p] = "likePost"
    /\ posts' = [posts EXCEPT ![arg[p][2]].like_count = LikeNewCount(p),
                              ![arg[p][2]].updated_at = clock]
    /\ pc' = [pc EXCEPT ![p] = "done"]
    /\ res' = [res EXCEPT ![p] = "ok"]
    /\ UNCHANGED <<users, follows, likes, comments, op, arg, loc, tx, ncalls, pre, prev, extvars>>

\* -------------------------------------------------------------- unlikePost
\* user select and its length check
UnlikeSelectUser(p) ==
    /\ pc[p] = "begin" /\ op[p] = "unlikePost"
    /\ loc' = [loc EXCEPT ![p].r1 = SelectUser(arg[p][1])]
    /\ IF Len(SelectUser(arg[p][1])) = 0
         THEN Throw(p, "NotFound")
         ELSE pc' = [pc EXCEPT ![p] = "selPost"] /\ UNCHANGED res
    /\ UNCHANGED <<dbvars, op, arg, tx, ncalls, pre, prev, extvars>>

\* post select and its length check
UnlikeSelectPost(p) ==
    /\ pc[p] = "selPost" /\ op[p] = "unlikePost"
    /\ loc' = [loc EXCEPT ![p].r2 = SelectPost(arg[p][2])]
    /\ IF Len(SelectPost(arg[p][2])) = 0
         THEN Throw(p, "NotFound")
         ELSE pc' = [pc EXCEPT ![p] = "selLike"] /\ UNCHANGED res
    /\ UNCHANGED <<dbvars, op, arg, tx, ncalls, pre, prev, extvars>>

\* an existence check that always finds a row
UnlikeMissingNever(p) == FALSE
\* existingLike.length === 0
UnlikeMissing(p) == likes[LikeKey(p)] = 0

\* existingLike select and the like-not-found check
UnlikeSelectExisting(p) ==
    /\ pc[p] = "selLike" /\ op[p] = "unlikePost"
    /\ IF UnlikeMissing(p)
         THEN Throw(p, "RelationshipNotFound")
         ELSE pc' = [pc EXCEPT ![p] = "delete"] /\ UNCHANGED res
    /\ UNCHANGED <<dbvars, op, arg, loc, tx, ncalls, pre, prev, extvars>>

\* db.delete(likesTable).where(key): committed at once, every row of the key
UnlikeDelete(p) ==
    /\ pc[p] = "delete" /\ op[p] = "unlikePost"
    /\ likes' = [likes EXCEPT ![LikeKey(p)] = 0]
    /\ pc' = [pc EXCEPT ![p] = "update"]
    /\ UNCHANGED <<users, posts, follows, comments, op, arg, loc, tx, res, ncalls, pre, prev, extvars>>

\* like_count: post[0].like_count - 1
UnlikeNewCount(p) == loc[p].r2[1].like_count - 1

\* db.update(postsTable).set({like_count: ...}).where(id = post_id), then return
UnlikeUpdCount(p) ==
    /\ pc[p] = "update" /\ op[p] = "unlikePost"
    /\ posts' = [posts EXCEPT ![arg[p][2]].like_count = UnlikeNewCount(p),
                              ![arg[p][2]].updated_at = clock]
    /\ pc' = [pc EXCEPT ![p] = "done"]
    /\ res' = [res EXCEPT ![p] = "ok"]
    /\ UNCHANGED <<users, follows, likes, comments, op, arg, loc, tx, ncalls, pre, prev, extvars>>

\* ----------------------------------------------------------- createComment
\* user select and its length check
CommentSelectUser(p) ==
    /\ pc[p] = "begin" /\ op[p] = "createComment"
    /\ loc' = [loc EXCEPT ![p].r1 = SelectUser(arg[p][1])]
    /\ IF Len(SelectUser(arg[p][1])) = 0
         THEN Throw(p, "NotFound")
         ELSE pc' = [pc EXCEPT ![p] = "selPost"] /\ UNCHANGED res
    /\ UNCHANGED <<dbvars, op, arg, tx, ncalls, pre, prev, extvars>>

\* post select and its length check
CommentSelectPost(p) ==
    /\ pc[p] = "selPost" /\ op[p] = "createComment"
    /\ loc' = [loc EXCEPT ![p].r2 = SelectPost(arg[p][2])]
    /\ IF Len(SelectPost(arg[p][2])) = 0
         THEN Throw(p, "NotFound")
         ELSE pc' = [pc EXCEPT ![p] = "insert"] /\ UNCHANGED res
    /\ UNCHANGED <<dbvars, op, arg, tx, ncalls, pre, prev, extvars>>

\* the row db.insert(commentsTable) stores: created_at and updated_at default to now()
NewComment(p) ==
    [user_id |-> arg[p][1], post_id |-> arg[p][2], content |-> "old",
     created_at |-> clock, updated_at |-> clock]

\* db.insert(commentsTable): committed at once
CommentInsert(p) ==
    /\ pc[p] = "insert" /\ op[p] = "createComment"
    /\ comments' = Append(comments, NewComment(p))
    /\ pc' = [pc EXCEPT ![p] = "update"]
    /\ UNCHANGED <<users, posts, follows, likes, op, arg, loc, tx, res, ncalls, pre, prev, extvars>>

\* the new comment_count taken from the wrong column of the row read
CommentNewCountWrongColumn(p) == loc[p].r2[1].like_count + 1
\* comment_count: post[0].comment_count + 1
CommentNewCount(p) == loc[p].r2[1].comment_count + 1

\* db.update(postsTable).set({comment_count: ...}).where(id = post_id), then return
CommentUpdCount(p) ==
    /\ pc[p] = "update" /\ op[p] = "createComment"
    /\ posts' = [posts EXCEPT ![arg[p][2]].comment_count = CommentNewCount(p),
                              ![arg[p][2]].updated_at = clock]
    /\ pc' = [pc EXCEPT ![p] = "done"]
    /\ res' = [res EXCEPT ![p] = "ok"]
    /\ UNCHANGED <<users, follows, likes, comments, op, arg, loc, tx, ncalls, pre, prev, extvars>>

\* -------------------------------------------------------------- createPost
\* !url: null and the empty string are falsy
Falsy(url) == url \in {"null", ""}

\* !input.image_url && !input.video_url
PostLacksMedia(p) == Falsy(arg[p][3][1]) /\ Falsy(arg[p][3][2])

\* if (!input.image_url && !input.video_url) throw, before any query
PostValidate(p) ==
    /\ pc[p] = "begin" /\ op[p] = "createPost"
    /\ IF PostLacksMedia(p)
         THEN Throw(p, "Validation")
         ELSE pc' = [pc EXCEPT ![p] = "selUser"] /\ UNCHANGED res
    /\ UNCHANGED <<dbvars, op, arg, loc, tx, ncalls, pre, prev, extvars>>

\* user select and its length check
PostSelectUser(p) ==
    /\ pc[p] = "selUser" /\ op[p] = "createPost"
    /\ loc' = [loc EXCEPT ![p].r1 = SelectUser(arg[p][1])]
    /\ IF Len(SelectUser(arg[p][1])) = 0
         THEN Throw(p, "NotFound")
         ELSE pc' = [pc EXCEPT ![p] = "insert"] /\ UNCHANGED res
    /\ UNCHANGED <<dbvars, op, arg, tx, ncalls, pre, prev, extvars>>

\* the row db.insert(postsTable) stores: created_at and updated_at default to now()
PostRow(p) == [NewPost(arg[p][1]) EXCEPT !.created_at = clock, !.updated_at = clock]

\* db.insert(postsTable): committed at once, counters at their defaults
PostInsert(p) ==
    /\ pc[p] = "insert" /\ op[p] = "createPost"
    /\ posts' = Append(posts, PostRow(p))
    /\ pc' = [pc EXCEPT ![p] = "update"]
    /\ UNCHANGED <<users, follows, likes, comments, op, arg, loc, tx, res, ncalls, pre, prev, extvars>>

\* the new posts_count taken from the wrong column of the row read
PostNewCountWrongColumn(p) == loc[p].r1[1].follower_count + 1
\* posts_count: users[0].posts_count + 1
PostNewCount(p) == loc[p].r1[1].posts_count + 1

\* db.update(usersTable).set({posts_count: ...}).where(id = user_id), then return
PostUpdCount(p) ==
    /\ pc[p] = "update" /\ op[p] = "createPost"
    /\ UserRowFree(p, arg[p][1])
    /\ users' = [users EXCEPT ![arg[p][1]].posts_count = PostNewCount(p),
                              ![arg[p][1]].updated_at = clock]
    /\ pc' = [pc EXCEPT ![p] = "done"]
    /\ res' = [res EXCEPT ![p] = "ok"]
    /\ UNCHANGED <<posts, follows, likes, comments, op, arg, loc, tx, ncalls, pre, prev, extvars>>

\* ------------------------------ like / unlike / comment / post, one at a time
PostOps == {"likePost", "unlikePost", "createComment", "createPost"}

PostSteps(p) ==
    \/ LikeSelectUser(p)
    \/ LikeSelectPost(p)
    \/ LikeSelectExisting(p)
    \/ LikeInsert(p)
    \/ LikeUpdCount(p)
    \/ UnlikeSelectUser(p)
    \/ UnlikeSelectPost(p)
    \/ UnlikeSelectExisting(p)
    \/ UnlikeDelete(p)
    \/ UnlikeUpdCount(p)
    \/ CommentSelectUser(p)
    \/ CommentSelectPost(p)
    \/ CommentInsert(p)
    \/ CommentUpdCount(p)
    \/ PostValidate(p)
    \/ PostSelectUser(p)
    \/ PostInsert(p)
    \/ PostUpdCount(p)

\* the posts here are made with an image, or with no media at all
CallPostSeq(p) == SeqCall(p, PostOps) /\ arg'[p][3] \in OneImage

NextPost == \E p \in Procs : CallPostSeq(p) \/ PostSteps(p)

SpecPost == Init /\ [][NextPost]_vars

\* ----------------------------------------- follow / unfollow with failing statements
StatementPcs ==
    {"selUsers", "selFollow", "txInsert", "txUpdFollower", "txUpdFollowing",
     "txDelete", "txDecFollowing", "txDecFollower", "txCommit",
     "selUser", "selPost", "selLike", "insert", "delete", "update"}

\* the store rejects the statement the request is about to run (connection lost,
\* statement timeout): the await throws, an open transaction is rolled back,
\* the catch block rethrows
StmtFail(p) ==
    /\ pc[p] \in StatementPcs
    /\ Throw(p, "DbError")
    /\ loc' = [loc EXCEPT ![p].at = pc[p]]
    /\ IF tx[p].open THEN TxRollback(p) ELSE UNCHANGED <<users, follows, tx>>
    /\ UNCHANGED <<posts, likes, comments, op, arg, ncalls, pre, prev, extvars>>

NextFollowFault == \E p \in Procs : CallFollowSeq(p) \/ FollowSteps(p) \/ StmtFail(p)

SpecFollowFault == Init /\ [][NextFollowFault]_vars

NextPostFault == \E p \in Procs : CallPostSeq(p) \/ PostSteps(p) \/ StmtFail(p)

SpecPostFault == Init /\ [][NextPostFault]_vars

\* ------------------------------------------------------- concurrent requests
\* a request arrives while others may be running
ConcCallUpTo(p, ops, n) ==
    /\ Resting(p)
    /\ ncalls < n
    /\ \E o \in ops, a \in UserIds \cup MsgIds, b \in {0} \cup UserIds \cup PostIds,
          m \in Media :
         /\ InputOf(o, a, b, m)
         /\ op' = [op EXCEPT ![p] = o]
         /\ arg' = [arg EXCEPT ![p] = <<a, b, m>>]
    /\ pc' = [pc EXCEPT ![p] = "begin"]
    /\ res' = [res EXCEPT ![p] = "none"]
    /\ loc' = [loc EXCEPT ![p] = NoLoc]
    /\ ncalls' = ncalls + 1
    /\ UNCHANGED <<dbvars, tx, pre, prev, extvars>>

\* the same, with at most MaxCalls calls in one behaviour
ConcCall(p, ops) == ConcCallUpTo(p, ops, MaxCalls)

\* the users row the request's next statement has to lock, if any
WantsUser(p) ==
    IF pc[p] \in {"txUpdFollower", "txDecFollowing"} THEN {arg[p][1]}
    ELSE IF pc[p] \in {"txUpdFollowing", "txDecFollower"} THEN {arg[p][2]}
    ELSE {}

\* p's next statement waits for a row lock that q's open transaction holds
WaitsFor(p, q) ==
    /\ q # p /\ tx[p].open /\ tx[q].open
    /\ WantsUser(p) \cap DOMAIN tx[q].uw # {}

\* the requests p waits for, directly or through others
RECURSIVE WaitClosure(_, _)
WaitClosure(S, n) ==
    IF n = 0 THEN S
    ELSE WaitClosure(S \cup {r \in Procs : \E q \in S : WaitsFor(q, r)}, n - 1)

Deadlocked(p) == p \in WaitClosure({r \in Procs : WaitsFor(p, r)}, NumProcs)

\* the store breaks a lock cycle by aborting one of its transactions: the waiting
\* statement throws, the transaction is rolled back, the catch block rethrows
DeadlockAbort(p) ==
    /\ Deadlocked(p)
    /\ Throw(p, "Deadlock")
    /\ TxRollback(p)
    /\ UNCHANGED <<posts, likes, comments, op, arg, loc, ncalls, pre, prev, extvars>>

CallFollowConc(p) == ConcCall(p, FollowOps)

NextConcFollow == \E p \in Procs : CallFollowConc(p) \/ FollowSteps(p) \/ DeadlockAbort(p)

SpecConcFollow == Init /\ [][NextConcFollow]_vars

CallPostConc(p) == ConcCall(p, PostOps) /\ arg'[p][3] \in OneImage

NextConcPost == \E p \in Procs : CallPostConc(p) \/ PostSteps(p)

SpecConcPost == Init /\ [][NextConcPost]_vars

\* ------------------------------------------------------------- createStory
\* expiresAt.setHours(expiresAt.getHours() + 24): hours a story lives
StoryLife == 24

\* a media check that tests for null only
StoryLacksMediaNullOnly(p) == arg[p][3][1] = "null" /\ arg[p][3][2] = "null"
\* !input.image_url && !input.video_url
StoryLacksMedia(p) == Falsy(arg[p][3][1]) /\ Falsy(arg[p][3][2])

\* if (!input.image_url && !input.video_url) throw, before any query
StoryValidate(p) ==
    /\ pc[p] = "begin" /\ op[p] = "createStory"
    /\ IF StoryLacksMedia(p)
         THEN Throw(p, "Validation")
         ELSE pc' = [pc EXCEPT ![p] = "selUser"] /\ UNCHANGED res
    /\ UNCHANGED <<dbvars, extvars, op, arg, loc, tx, ncalls, pre, prev>>

\* user select and its length check; then expiresAt = new Date() + 24 hours
StorySelectUser(p) ==
    /\ pc[p] = "selUser" /\ op[p] = "createStory"
    /\ loc' = [loc EXCEPT ![p].r1 = SelectUser(arg[p][1]), ![p].now = clock]
    /\ IF Len(SelectUser(arg[p][1])) = 0
         THEN Throw(p, "NotFound")
         ELSE pc' = [pc EXCEPT ![p] = "insert"] /\ UNCHANGED res
    /\ UNCHANGED <<dbvars, extvars, op, arg, tx, ncalls, pre, prev>>

\* a row whose expires_at is the sampled instant itself, the 24 hours not added
NewStoryNoLife(p) ==
    [user_id |-> arg[p][1], created_at |-> clock, expires_at |-> loc[p].now]
\* the row db.insert(storiesTable) stores: created_at defaults to the store's now()
NewStory(p) ==
    [user_id |-> arg[p][1], created_at |-> clock, expires_at |-> loc[p].now + StoryLife]

\* db.insert(storiesTable).values({..., expires_at: expiresAt}), then return
StoryInsert(p) ==
    /\ pc[p] = "insert" /\ op[p] = "createStory"
    /\ stories' = Append(stories, NewStory(p))
    /\ pc' = [pc EXCEPT ![p] = "done"]
    /\ res' = [res EXCEPT ![p] = "ok"]
    /\ UNCHANGED <<dbvars, messages, clock, op, arg, loc, tx, ncalls, pre, prev>>

\* ---------------------------------------------------------- getUserStories
\* const now = new Date(), before the query is issued
StoriesSampleNow(p) ==
    /\ pc[p] = "begin" /\ op[p] = "getUserStories"
    /\ loc' = [loc EXCEPT ![p].now = clock]
    /\ pc' = [pc EXCEPT ![p] = "selStories"]
    /\ UNCHANGED <<dbvars, extvars, op, arg, tx, res, ncalls, pre, prev>>

\* ids of the rows with user_id = u
StoriesOf(u) == {i \in DOMAIN stories : stories[i].user_id = u}

\* orderBy(asc(created_at)) in place of desc
StoriesOrderedAsc(s) ==
    \A i, j \in DOMAIN s : i < j => stories[s[i]].created_at <= stories[s[j]].created_at
\* orderBy(desc(storiesTable.created_at)): rows of equal created_at in any order
StoriesOrdered(s) ==
    \A i, j \in DOMAIN s : i < j => stories[s[i]].created_at >= stories[s[j]].created_at

\* the orders in which the select may return the rows of user u
StoriesSelect(u) ==
    {s \in [1..Cardinality(StoriesOf(u)) -> StoriesOf(u)] :
        /\ \A i, j \in DOMAIN s : i # j => s[i] # s[j]
        /\ StoriesOrdered(s)}

\* a filter that keeps a story expiring at the sampled instant
StoryActiveInclusive(i, now) == stories[i].expires_at >= now
\* story.expires_at > now
StoryActive(i, now) == stories[i].expires_at > now

RECURSIVE FilterActive(_, _)
\* results.filter(story => story.expires_at > now)
FilterActive(s, now) ==
    IF Len(s) = 0 THEN <<>>
    ELSE IF StoryActive(s[1], now)
           THEN <<s[1]>> \o FilterActive(Tail(s), now)
           ELSE FilterActive(Tail(s), now)

\* the select of the user's stories, the filter on the sampled now, and return
StoriesQuery(p) ==
    /\ pc[p] = "selStories" /\ op[p] = "getUserStories"
    /\ \E s \in StoriesSelect(arg[p][1]) :
         loc' = [loc EXCEPT ![p].r1 = s, ![p].out = FilterActive(s, loc[p].now)]
    /\ pc' = [pc EXCEPT ![p] = "done"]
    /\ res' = [res EXCEPT ![p] = "ok"]
    /\ UNCHANGED <<dbvars, extvars, op, arg, tx, ncalls, pre, prev>>

\* hours by which the clock moves in one step: half the life of a story
ClockStep == StoryLife \div 2

\* time passes
Tick ==
    /\ clock < MaxClock * ClockStep
    /\ clock' = clock + ClockStep
    /\ UNCHANGED <<dbvars, stories, messages, pc, op, arg, loc, tx, res, ncalls, pre, prev>>

\* time passes once: rows made before and after differ in created_at, rows made
\* on the same side of it do not
FirstTick == clock = 0 /\ Tick

\* ------------------------------------------- createStory / getUserStories
StoryOps == {"createStory", "getUserStories"}

StorySteps(p) ==
    \/ StoryValidate(p)
    \/ StorySelectUser(p)
    \/ StoryInsert(p)
    \/ StoriesSampleNow(p)
    \/ StoriesQuery(p)

\* the calls here are for users 1 and 2 and for the id that names no user; the
\* stories are made with an image, or with no media at all
CallStorySeq(p) ==
    /\ SeqCall(p, StoryOps)
    /\ arg'[p][1] \in {1, 2, MaxUsers + 1}
    /\ arg'[p][3] \in OneImage

NextStory == Tick \/ \E p \in Procs : CallStorySeq(p) \/ StorySteps(p)

SpecStory == Init /\ [][NextStory]_vars

\* ----------------------------------------------- createPost / createStory
MediaOps == {"createPost", "createStory"}

MediaSteps(p) ==
    \/ PostValidate(p)
    \/ PostSelectUser(p)
    \/ PostInsert(p)
    \/ PostUpdCount(p)
    \/ StoryValidate(p)
    \/ StorySelectUser(p)
    \/ StoryInsert(p)

CallMediaSeq(p) == SeqCallUpTo(p, MediaOps, MaxWriteCalls)

NextMedia == \E p \in Procs : CallMediaSeq(p) \/ MediaSteps(p)

SpecMedia == Init /\ [][NextMedia]_vars

\* ------------------------------------------------------- sendDirectMessage
\* input.sender_id === input.receiver_id, tested only for users that exist
MessageIsSelfLate(p) == arg[p][1] = arg[p][2] /\ arg[p][1] \in DOMAIN users
\* input.sender_id === input.receiver_id
MessageIsSelf(p) == arg[p][1] = arg[p][2]

\* if (input.sender_id === input.receiver_id) throw, before any query
MessageCheckSelf(p) ==
    /\ pc[p] = "begin" /\ op[p] = "sendDirectMessage"
    /\ IF MessageIsSelf(p)
         THEN Throw(p, "SelfReference") /\ UNCHANGED loc
         ELSE /\ pc' = [pc EXCEPT ![p] = "selUsers"]
              /\ loc' = [loc EXCEPT ![p].todo = {"sender", "receiver"}]
              /\ UNCHANGED res
    /\ UNCHANGED <<dbvars, extvars, op, arg, tx, ncalls, pre, prev>>

\* after Promise.all: the two length checks, in source order
MessageAfterUsers(p, l) ==
    IF l.todo # {}
      THEN pc' = pc /\ res' = res
      ELSE IF Len(l.r1) = 0 \/ Len(l.r2) = 0
             THEN Throw(p, "NotFound")
             ELSE pc' = [pc EXCEPT ![p] = "insert"] /\ UNCHANGED res

\* one of the two user selects of Promise.all completes
MessageSelectUser(p) ==
    /\ pc[p] = "selUsers" /\ op[p] = "sendDirectMessage"
    /\ \E w \in loc[p].todo :
         LET l == IF w = "sender"
                    THEN [loc[p] EXCEPT !.r1 = SelectUser(arg[p][1]), !.todo = @ \ {w}]
                    ELSE [loc[p] EXCEPT !.r2 = SelectUser(arg[p][2]), !.todo = @ \ {w}]
         IN  loc' = [loc EXCEPT ![p] = l] /\ MessageAfterUsers(p, l)
    /\ UNCHANGED <<dbvars, extvars, op, arg, tx, ncalls, pre, prev>>

\* the row db.insert(directMessagesTable) stores: is_read: false
NewMessage(p) ==
    [sender_id |-> arg[p][1], receiver_id |-> arg[p][2], is_read |-> FALSE,
     created_at |-> clock]

\* db.insert(directMessagesTable), then return
MessageInsert(p) ==
    /\ pc[p] = "insert" /\ op[p] = "sendDirectMessage"
    /\ messages' = Append(messages, NewMessage(p))
    /\ pc' = [pc EXCEPT ![p] = "done"]
    /\ res' = [res EXCEPT ![p] = "ok"]
    /\ UNCHANGED <<dbvars, stories, clock, op, arg, loc, tx, ncalls, pre, prev>>

\* ------------------------------------------------------- markMessageAsRead
\* a select on the message id alone
MarkSelectAnyUser(p) ==
    IF arg[p][1] \in DOMAIN messages THEN <<messages[arg[p][1]]>> ELSE <<>>
\* select from directMessagesTable where id = message_id and receiver_id = user_id
MarkSelect(p) ==
    IF arg[p][1] \in DOMAIN messages /\ messages[arg[p][1]].receiver_id = arg[p][2]
      THEN <<messages[arg[p][1]]>>
      ELSE <<>>

\* the existingMessage select and its length check
MarkSelectMessage(p) ==
    /\ pc[p] = "begin" /\ op[p] = "markMessageAsRead"
    /\ loc' = [loc EXCEPT ![p].r1 = MarkSelect(p)]
    /\ IF Len(MarkSelect(p)) = 0
         THEN Throw(p, "NotFound")
         ELSE pc' = [pc EXCEPT ![p] = "update"] /\ UNCHANGED res
    /\ UNCHANGED <<dbvars, extvars, op, arg, tx, ncalls, pre, prev>>

\* an update that toggles the flag
MarkNewFlagToggles(p) == ~messages[arg[p][1]].is_read
\* set({is_read: true})
MarkNewFlag(p) == TRUE

\* db.update(directMessagesTable).set({is_read: true}).where(id = message_id), then return
MarkUpdate(p) ==
    /\ pc[p] = "update" /\ op[p] = "markMessageAsRead"
    /\ messages' = [i \in DOMAIN messages |->
                      IF i = arg[p][1] THEN [messages[i] EXCEPT !.is_read = MarkNewFlag(p)]
                                       ELSE messages[i]]
    /\ pc' = [pc EXCEPT ![p] = "done"]
    /\ res' = [res EXCEPT ![p] = "ok"]
    /\ UNCHANGED <<dbvars, stories, clock, op, arg, loc, tx, ncalls, pre, prev>>

\* --------------------------------- direct messages, one call at a time
MessageOps == {"sendDirectMessage", "markMessageAsRead"}

MessageSteps(p) ==
    \/ MessageCheckSelf(p)
    \/ MessageSelectUser(p)
    \/ MessageInsert(p)
    \/ MarkSelectMessage(p)
    \/ MarkUpdate(p)

CallMessageSeq(p) == SeqCall(p, MessageOps)

NextMessage == \E p \in Procs : CallMessageSeq(p) \/ MessageSteps(p)

SpecMessage == Init /\ [][NextMessage]_vars

\* ----------------------------------------- every write handler, one call at a time
WriteOps == FollowOps \cup PostOps \cup {"createStory", "sendDirectMessage"}

WriteSteps(p) ==
    \/ FollowSteps(p)
    \/ PostSteps(p)
    \/ StoryValidate(p)
    \/ StorySelectUser(p)
    \/ StoryInsert(p)
    \/ MessageCheckSelf(p)
    \/ MessageSelectUser(p)
    \/ MessageInsert(p)

\* the calls here are for users 1 and 2 and the id that names no user, for post 1
\* and the id that names no post, with an image or with no media at all
CallWriteSeq(p) ==
    /\ SeqCallUpTo(p, WriteOps, MaxWriteCalls)
    /\ arg'[p][1] \in {1, 2, MaxUsers + 1}
    /\ op'[p] \in {"followUser", "unfollowUser", "sendDirectMessage"} =>
          arg'[p][2] \in {1, 2, MaxUsers + 1}
    /\ op'[p] \in {"likePost", "unlikePost", "createComment"} =>
          arg'[p][2] \in {1, MaxPosts + 1}
    /\ arg'[p][3] \in OneImage

NextWrite == \E p \in Procs : CallWriteSeq(p) \/ WriteSteps(p)

SpecWrite == Init /\ [][NextWrite]_vars

\* ----------------------------------- followUser and likePost, requests overlapping
CreateOps == {"followUser", "likePost"}

CreateSteps(p) ==
    \/ FollowCheckSelf(p)
    \/ FollowSelectUser(p)
    \/ FollowSelectExisting(p)
    \/ FollowTxInsert(p)
    \/ FollowTxUpdFollower(p)
    \/ FollowTxUpdFollowing(p)
    \/ TxCommit(p)
    \/ LikeSelectUser(p)
    \/ LikeSelectPost(p)
    \/ LikeSelectExisting(p)
    \/ LikeInsert(p)
    \/ LikeUpdCount(p)

\* the calls here are for users 1 and 2 and the id that names no user, for post 1
\* and the id that names no post
CallCreateConc(p) ==
    /\ ConcCallUpTo(p, CreateOps, MaxConcCalls)
    /\ arg'[p][1] \in {1, 2, MaxUsers + 1}
    /\ op'[p] = "followUser" => arg'[p][2] \in {1, 2, MaxUsers + 1}
    /\ op'[p] = "likePost" => arg'[p][2] \in {1, MaxPosts + 1}

NextConcCreate == \E p \in Procs : CallCreateConc(p) \/ CreateSteps(p) \/ DeadlockAbort(p)

SpecConcCreate == Init /\ [][NextConcCreate]_vars

\* requests arrive in batches: the first of a batch while nothing is running (the
\* results of the batch before it are dropped), the others while it runs
BatchCall(p, ops) ==
    /\ ncalls < MaxCalls
    /\ \/ \A q \in Procs : Resting(q)
       \/ pc[p] = "idle"
    /\ \E o \in ops, a \in UserIds \cup MsgIds, b \in {0} \cup UserIds \cup PostIds,
          m \in Media :
         /\ InputOf(o, a, b, m)
         /\ op' = [q \in Procs |-> IF q = p THEN o
                                   ELSE IF Resting(q) THEN "none" ELSE op[q]]
         /\ arg' = [q \in Procs |-> IF q = p THEN <<a, b, m>>
                                    ELSE IF Resting(q) THEN NoArg ELSE arg[q]]
    /\ pc' = [q \in Procs |-> IF q = p THEN "begin"
                              ELSE IF Resting(q) THEN "idle" ELSE pc[q]]
    /\ res' = [q \in Procs |-> IF q = p \/ Resting(q) THEN "none" ELSE res[q]]
    /\ loc' = [q \in Procs |-> IF q = p \/ Resting(q) THEN NoLoc ELSE loc[q]]
    /\ ncalls' = ncalls + 1
    /\ pre' = IF \A q \in Procs : Resting(q) THEN DB ELSE pre
    /\ prev' = NoPrev
    /\ UNCHANGED <<dbvars, extvars, tx>>

\* the requests of a batch race for one pair: those that join make the call the
\* first one made, and take the request slots in order. The calls are for users
\* 1 and 2 and the id that names no user, for post 1 and the id that names no post
CallCreateBatch(p) ==
    /\ \A q \in Procs : q < p => pc[q] # "idle"
    /\ BatchCall(p, CreateOps)
    /\ \A q \in Procs \ {p} : pc'[q] # "idle" => op'[p] = op[q] /\ arg'[p] = arg[q]
    /\ arg'[p][1] \in {1, 2, MaxUsers + 1}
    /\ op'[p] = "followUser" => arg'[p][2] \in {1, 2, MaxUsers + 1}
    /\ op'[p] = "likePost" => arg'[p][2] \in {1, MaxPosts + 1}

NextRace == \E p \in Procs : CallCreateBatch(p) \/ CreateSteps(p)

SpecRace == Init /\ [][NextRace]_vars

\* -------------------------------------------------------------- updateUser
\* an optional input field: "undefined" when the key is absent, "null", or a value
Nullable == {"undefined", "null", "new"}
\* (username, full_name, bio, profile_image_url, is_private) of an UpdateUserInput
UserData == {"undefined", "new", "user2"} \X Nullable \X Nullable \X Nullable
                \X {"undefined", "true", "false"}
NoUserData == <<"undefined", "undefined", "undefined", "undefined", "undefined">>

\* a test that takes null for an absent field
GivenNotNull(v) == v \notin {"undefined", "null"}
\* input.field !== undefined
Given(v) == v # "undefined"

\* the select of the user and its length check; then updated_at: new Date()
UpdateUserSelect(p) ==
    /\ pc[p] = "begin" /\ op[p] = "updateUser"
    /\ loc' = [loc EXCEPT ![p].r1 = SelectUser(arg[p][1]), ![p].now = clock]
    /\ IF Len(SelectUser(arg[p][1])) = 0
         THEN Throw(p, "NotFound")
         ELSE pc' = [pc EXCEPT ![p] = "update"] /\ UNCHANGED res
    /\ UNCHANGED <<dbvars, extvars, op, arg, tx, ncalls, pre, prev>>

\* an update that writes the whole row afresh: the columns given, the rest at
\* their defaults
UpdateDataFromDefaults(row, d, now) ==
    [ZeroUser EXCEPT !.username = IF Given(d[1]) THEN d[1] ELSE row.username,
                     !.full_name = IF Given(d[2]) THEN d[2] ELSE row.full_name,
                     !.bio = IF Given(d[3]) THEN d[3] ELSE row.bio,
                     !.profile_image_url = IF Given(d[4]) THEN d[4] ELSE row.profile_image_url,
                     !.is_private = IF Given(d[5]) THEN d[5] ELSE row.is_private,
                     !.updated_at = now]
\* updateData: updated_at and the fields of the input that are not undefined
UpdateData(row, d, now) ==
    [row EXCEPT !.username = IF Given(d[1]) THEN d[1] ELSE @,
                !.full_name = IF Given(d[2]) THEN d[2] ELSE @,
                !.bio = IF Given(d[3]) THEN d[3] ELSE @,
                !.profile_image_url = IF Given(d[4]) THEN d[4] ELSE @,
                !.is_private = IF Given(d[5]) THEN d[5] ELSE @,
                !.updated_at = now]

\* username: text('username').notNull().unique(): another row holds the name
UsernameTaken(id, name) == \E v \in DOMAIN users \ {id} : users[v].username = name

\* db.update(usersTable).set(updateData).where(id = input.id).returning(), then
\* return result[0]; the store rejects a username another user holds
UpdateUserUpdate(p) ==
    /\ pc[p] = "update" /\ op[p] = "updateUser"
    /\ UserRowFree(p, arg[p][1])
    /\ IF Given(arg[p][3][1]) /\ UsernameTaken(arg[p][1], arg[p][3][1])
         THEN Throw(p, "UniqueViolation") /\ UNCHANGED users
         ELSE /\ users' = [users EXCEPT ![arg[p][1]] = UpdateData(@, arg[p][3], loc[p].now)]
              /\ pc' = [pc EXCEPT ![p] = "done"]
              /\ res' = [res EXCEPT ![p] = "ok"]
    /\ UNCHANGED <<posts, follows, likes, comments, extvars, op, arg, loc, tx, ncalls, pre, prev>>

\* -------------------------------------------------------------- updatePost
\* the select of the post (limit 1) and its length check
UpdatePostSelect(p) ==
    /\ pc[p] = "begin" /\ op[p] = "updatePost"
    /\ loc' = [loc EXCEPT ![p].r2 = SelectPost(arg[p][1]), ![p].now = clock]
    /\ IF Len(SelectPost(arg[p][1])) = 0
         THEN Throw(p, "NotFound")
         ELSE pc' = [pc EXCEPT ![p] = "update"] /\ UNCHANGED res
    /\ UNCHANGED <<dbvars, extvars, op, arg, tx, ncalls, pre, prev>>

\* db.update(postsTable).set({caption: input.caption, updated_at: new Date()}): a
\* key whose value is undefined is left out of the SET list
UpdatePostUpdate(p) ==
    /\ pc[p] = "update" /\ op[p] = "updatePost"
    /\ posts' = [posts EXCEPT ![arg[p][1]].caption = IF Given(arg[p][3][1]) THEN arg[p][3][1] ELSE @,
                              ![arg[p][1]].updated_at = loc[p].now]
    /\ pc' = [pc EXCEPT ![p] = "done"]
    /\ res' = [res EXCEPT ![p] = "ok"]
    /\ UNCHANGED <<users, follows, likes, comments, extvars, op, arg, loc, tx, ncalls, pre, prev>>

\* ----------------------------------------------------------- updateComment
\* db.update(commentsTable).set({content, updated_at}).where(id = input.id)
\* .returning(); an empty result is the not-found error
UpdateCommentUpdate(p) ==
    /\ pc[p] = "begin" /\ op[p] = "updateComment"
    /\ loc' = [loc EXCEPT ![p].now = clock]
    /\ IF arg[p][1] \in DOMAIN comments
         THEN /\ comments' = [comments EXCEPT ![arg[p][1]].content = arg[p][3][1],
                                              ![arg[p][1]].updated_at = clock]
              /\ pc' = [pc EXCEPT ![p] = "done"]
              /\ res' = [res EXCEPT ![p] = "ok"]
         ELSE Throw(p, "NotFound") /\ UNCHANGED comments
    /\ UNCHANGED <<users, posts, follows, likes, extvars, op, arg, tx, ncalls, pre, prev>>

\* ---------------------------------------------------- updateUser, one at a time
\* the number of fields an input gives
FieldsGiven(d) == Cardinality({i \in DOMAIN d : Given(d[i])})

\* the inputs tried here give no field, one field, or all five (the username
\* given is a fresh one or the one user 2 holds); the ids are that of user 1 and
\* the id that names no user
CallUserSeq(p) ==
    /\ p = 1 /\ ncalls < MaxWriteCalls
    /\ \E id \in {1, MaxUsers + 1}, d \in UserData :
         /\ FieldsGiven(d) \in {0, 1, 5}
         /\ FieldsGiven(d) = 5 => (d[2] = d[3] /\ d[3] = d[4])
         /\ SeqCallWith(p, "updateUser", <<id, 0, d>>, MaxWriteCalls)

UserSteps(p) == UpdateUserSelect(p) \/ UpdateUserUpdate(p)

NextUser == Tick \/ \E p \in Procs : CallUserSeq(p) \/ UserSteps(p)

SpecUser == Init /\ [][NextUser]_vars

\* ------------------ the handlers that write no counter, after a few that do
\* updateUser, updatePost, updateComment, createStory, sendDirectMessage,
\* markMessageAsRead
EditOps == {"updateUser", "updatePost", "updateComment", "createStory",
            "sendDirectMessage", "markMessageAsRead"}
\* the handlers that make the rows and raise the counters the others must leave alone
SetupOps == {"followUser", "likePost", "createComment"}

EditSteps(p) ==
    \/ FollowCheckSelf(p)
    \/ FollowSelectUser(p)
    \/ FollowSelectExisting(p)
    \/ FollowTxInsert(p)
    \/ FollowTxUpdFollower(p)
    \/ FollowTxUpdFollowing(p)
    \/ TxCommit(p)
    \/ LikeSelectUser(p)
    \/ LikeSelectPost(p)
    \/ LikeSelectExisting(p)
    \/ LikeInsert(p)
    \/ LikeUpdCount(p)
    \/ CommentSelectUser(p)
    \/ CommentSelectPost(p)
    \/ CommentInsert(p)
    \/ CommentUpdCount(p)
    \/ UpdateUserSelect(p)
    \/ UpdateUserUpdate(p)
    \/ UpdatePostSelect(p)
    \/ UpdatePostUpdate(p)
    \/ UpdateCommentUpdate(p)
    \/ StoryValidate(p)
    \/ StorySelectUser(p)
    \/ StoryInsert(p)
    \/ MessageCheckSelf(p)
    \/ MessageSelectUser(p)
    \/ MessageInsert(p)
    \/ MarkSelectMessage(p)
    \/ MarkUpdate(p)

\* a call with two ids: users 1 and 2 and the id that names no user, post 1, the
\* first message and the id after it; a story with an image or with no media
CallEditIds(p) ==
    /\ SeqCallUpTo(p, SetupOps \cup {"createStory", "sendDirectMessage", "markMessageAsRead"},
                   MaxCalls)
    /\ op'[p] # "markMessageAsRead" => arg'[p][1] \in {1, 2, MaxUsers + 1}
    /\ op'[p] \in {"followUser", "sendDirectMessage"} => arg'[p][2] \in {1, 2}
    /\ op'[p] \in {"likePost", "createComment"} => arg'[p][2] = 1
    /\ op'[p] = "markMessageAsRead" => arg'[p][1] \in {1, 2} /\ arg'[p][2] \in {1, 2}
    /\ arg'[p][3] \in OneImage

\* an update call: of user 1 or the id that names no user, giving nothing or a
\* full_name; of post 1 or the id that names no post; of the first comment or the
\* id after it
CallEditUpdate(p) ==
    /\ p = 1 /\ ncalls < MaxCalls
    /\ \/ \E id \in {1, MaxUsers + 1},
             d \in {NoUserData, [NoUserData EXCEPT ![2] = "new"]} :
            SeqCallWith(p, "updateUser", <<id, 0, d>>, MaxCalls)
       \/ \E id \in {1, MaxPosts + 1}, c \in Nullable :
            SeqCallWith(p, "updatePost", <<id, 0, <<c>>>>, MaxCalls)
       \/ \E id \in {1, 2} :
            SeqCallWith(p, "updateComment", <<id, 0, <<"new">>>>, MaxCalls)

NextEdit == \E p \in Procs : CallEditIds(p) \/ CallEditUpdate(p) \/ EditSteps(p)

SpecEdit == Init /\ [][NextEdit]_vars

\* ---------------------------------------- orderBy(desc(created_at)), limit, offset
\* the rows ids of table t in the orders ORDER BY created_at DESC may give them:
\* newest first, rows of equal created_at in any order
OrderedDesc(s, t) == \A i, j \in DOMAIN s : i < j => t[s[i]].created_at >= t[s[j]].created_at
SelectDesc(ids, t) ==
    {s \in [1..Cardinality(ids) -> ids] :
        /\ \A i, j \in DOMAIN s : i # j => s[i] # s[j]
        /\ OrderedDesc(s, t)}

\* .limit(limit).offset(offset): rows offset+1 .. offset+limit of the ordered result
Page(s, limit, offset) ==
    SubSeq(s, offset + 1, IF offset + limit < Len(s) THEN offset + limit ELSE Len(s))

\* limit: z.number().int().positive(), offset: z.number().int().nonnegative()
Limits == 1..MaxPosts
Offsets == 0..MaxPosts

\* ----------------------------------------------------------------- getFeed
\* a join on the follower side: the posts of those who follow u
FeedRowsOfFollowers(u) ==
    {i \in DOMAIN posts : u \in UserIds /\ follows[<<posts[i].user_id, u>>] > 0}
\* posts innerJoin follows on posts.user_id = follows.following_id where
\* follows.follower_id = u (a Follow key holds at most one row)
FeedRows(u) ==
    {i \in DOMAIN posts : u \in UserIds /\ follows[<<u, posts[i].user_id>>] > 0}

\* the one query of getFeed, and return
FeedQuery(p) ==
    /\ pc[p] = "begin" /\ op[p] = "getFeed"
    /\ \E s \in SelectDesc(FeedRows(arg[p][1]), posts) :
         loc' = [loc EXCEPT ![p].r1 = s, ![p].out = Page(s, arg[p][3][1], arg[p][3][2])]
    /\ pc' = [pc EXCEPT ![p] = "done"]
    /\ res' = [res EXCEPT ![p] = "ok"]
    /\ UNCHANGED <<dbvars, extvars, op, arg, tx, ncalls, pre, prev>>

\* ------------------------------- getFeed after follow / unfollow / createPost
FeedOps == {"followUser", "unfollowUser", "createPost"}

FeedSteps(p) ==
    \/ FollowSteps(p)
    \/ TxCommit(p)
    \/ PostValidate(p)
    \/ PostSelectUser(p)
    \/ PostInsert(p)
    \/ PostUpdCount(p)
    \/ FeedQuery(p)

\* user 2 follows and unfollows user 1; users 1 and 2 post an image
CallFeedSetup(p) ==
    /\ SeqCall(p, FeedOps)
    /\ op'[p] \in {"followUser", "unfollowUser"} => arg'[p][1] = 2 /\ arg'[p][2] = 1
    /\ op'[p] = "createPost" => arg'[p][1] \in {1, 2} /\ arg'[p][3] = <<"url", "null">>

\* the feed of user 2 is read, page by page
CallFeed(p) ==
    /\ p = 1 /\ ncalls < MaxCalls
    /\ \E l \in Limits, o \in Offsets :
         SeqCallWith(p, "getFeed", <<2, 0, <<l, o>>>>, MaxCalls)

NextFeed == FirstTick \/ \E p \in Procs : CallFeedSetup(p) \/ CallFeed(p) \/ FeedSteps(p)

SpecFeed == Init /\ [][NextFeed]_vars

\* ------------------------------------------------------------ getUserPosts
\* select from posts where user_id = input.user_id
UserPostRows(u) == {i \in DOMAIN posts : posts[i].user_id = u}

\* the one query of getUserPosts, and return
UserPostsQuery(p) ==
    /\ pc[p] = "begin" /\ op[p] = "getUserPosts"
    /\ \E s \in SelectDesc(UserPostRows(arg[p][1]), posts) :
         loc' = [loc EXCEPT ![p].r1 = s, ![p].out = Page(s, arg[p][3][1], arg[p][3][2])]
    /\ pc' = [pc EXCEPT ![p] = "done"]
    /\ res' = [res EXCEPT ![p] = "ok"]
    /\ UNCHANGED <<dbvars, extvars, op, arg, tx, ncalls, pre, prev>>

\* --------------------------------------------------------- getPostComments
\* comments innerJoin users on comments.user_id = users.id where post_id = input.post_id
PostCommentRows(i) ==
    {n \in DOMAIN comments : comments[n].post_id = i /\ comments[n].user_id \in DOMAIN users}

\* the one query of getPostComments, and return of the mapped rows
PostCommentsQuery(p) ==
    /\ pc[p] = "begin" /\ op[p] = "getPostComments"
    /\ \E s \in SelectDesc(PostCommentRows(arg[p][1]), comments) :
         loc' = [loc EXCEPT ![p].r1 = s, ![p].out = Page(s, arg[p][3][1], arg[p][3][2])]
    /\ pc' = [pc EXCEPT ![p] = "done"]
    /\ res' = [res EXCEPT ![p] = "ok"]
    /\ UNCHANGED <<dbvars, extvars, op, arg, tx, ncalls, pre, prev>>

\* --------------------------------------------------------- getConversation
\* (sender_id = user_id and receiver_id = other_user_id) or
\* (sender_id = other_user_id and receiver_id = user_id)
ConversationRows(a, b) ==
    {n \in DOMAIN messages :
        \/ messages[n].sender_id = a /\ messages[n].receiver_id = b
        \/ messages[n].sender_id = b /\ messages[n].receiver_id = a}

\* the one query of getConversation, and return
ConversationQuery(p) ==
    /\ pc[p] = "begin" /\ op[p] = "getConversation"
    /\ \E s \in SelectDesc(ConversationRows(arg[p][1], arg[p][2]), messages) :
         loc' = [loc EXCEPT ![p].r1 = s, ![p].out = Page(s, arg[p][3][1], arg[p][3][2])]
    /\ pc' = [pc EXCEPT ![p] = "done"]
    /\ res' = [res EXCEPT ![p] = "ok"]
    /\ UNCHANGED <<dbvars, extvars, op, arg, tx, ncalls, pre, prev>>

\* ---------------------- the paged reads, after posts, comments and messages
PageOps == {"getUserPosts", "getPostComments", "getConversation"}
RowOps == {"createPost", "createComment", "sendDirectMessage"}

PageSteps(p) ==
    \/ PostValidate(p)
    \/ PostSelectUser(p)
    \/ PostInsert(p)
    \/ PostUpdCount(p)
    \/ CommentSelectUser(p)
    \/ CommentSelectPost(p)
    \/ CommentInsert(p)
    \/ CommentUpdCount(p)
    \/ MessageCheckSelf(p)
    \/ MessageSelectUser(p)
    \/ MessageInsert(p)
    \/ UserPostsQuery(p)
    \/ PostCommentsQuery(p)
    \/ ConversationQuery(p)

\* two rows are made and two pages are read in the longest sequence of calls
PageCalls == MaxCalls + 1

\* user 1 posts an image and comments on post 1; users 1 and 2 write to each
\* other and user 3 writes to user 1
CallPageRow(p) ==
    /\ SeqCallUpTo(p, RowOps, PageCalls)
    /\ op'[p] = "createPost" => arg'[p][1] = 1 /\ arg'[p][3] = <<"url", "null">>
    /\ op'[p] = "createComment" => arg'[p][1] = 1 /\ arg'[p][2] = 1
    /\ op'[p] = "sendDirectMessage" => <<arg'[p][1], arg'[p][2]>> \in {<<1, 2>>, <<2, 1>>, <<3, 1>>}

\* a page of the posts of user 1, of the comments of post 1, of the conversation
\* of users 1 and 2 asked from either side
CallPage(p) ==
    /\ p = 1 /\ ncalls < PageCalls
    /\ \E l \in Limits, o \in Offsets :
         \/ SeqCallWith(p, "getUserPosts", <<1, 0, <<l, o>>>>, PageCalls)
         \/ SeqCallWith(p, "getPostComments", <<1, 0, <<l, o>>>>, PageCalls)
         \/ \E a, b \in {1, 2} :
              a # b /\ SeqCallWith(p, "getConversation", <<a, b, <<l, o>>>>, PageCalls)

NextPage == FirstTick \/ \E p \in Procs : CallPageRow(p) \/ CallPage(p) \/ PageSteps(p)

SpecPage == Init /\ [][NextPage]_vars

\* ------------------------- followUser and unfollowUser, requests for one pair racing
\* the requests of a batch race for one pair: those that join make the call the
\* first one made, and take the request slots in order. The calls are for users
\* 1 and 2
CallFollowBatch(p) ==
    /\ \A q \in Procs : q < p => pc[q] # "idle"
    /\ BatchCall(p, FollowOps)
    /\ \A q \in Procs \ {p} : pc'[q] # "idle" => op'[p] = op[q] /\ arg'[p] = arg[q]
    /\ arg'[p][1] \in {1, 2} /\ arg'[p][2] \in {1, 2}

NextUnfollowRace == \E p \in Procs : CallFollowBatch(p) \/ FollowSteps(p) \/ TxCommit(p)

SpecUnfollowRace == Init /\ [][NextUnfollowRace]_vars

\* ------------------------------------------------------------ properties
RECURSIVE SumCounts(_, _)
SumCounts(f, S) ==
    IF S = {} THEN 0
    ELSE LET k == CHOOSE k \in S : TRUE IN f[k] + SumCounts(f, S \ {k})

\* number of Follow rows pointing at u, and from u
FollowerRows(u)  == SumCounts(follows, {k \in FollowKeys : k[2] = u})
FollowingRows(u) == SumCounts(follows, {k \in FollowKeys : k[1] = u})

AllResting == \A p \in Procs : Resting(p)
Returned(p, o) == pc[p] = "done" /\ op[p] = o
Exists2(d, a, b) == a \in DOMAIN d.users /\ b \in DOMAIN d.users

\* C1: after any sequence of followUser / unfollowUser calls run one at a time,
\* every user's follower_count is the number of Follow rows pointing at the user
\* and following_count the number of Follow rows from the user.
C1_FollowCountersMatchRows ==
    AllResting =>
        \A u \in DOMAIN users :
            /\ users[u].follower_count = FollowerRows(u)
            /\ users[u].following_count = FollowingRows(u)

\* C1 witness: an unfollow has succeeded and a user still follows somebody
C1_Witness ==
    /\ \E p \in Procs : Returned(p, "unfollowUser") /\ res[p] = "ok"
    /\ \E u \in DOMAIN users : users[u].following_count >= 1 /\ FollowingRows(u) >= 1

\* C5: followUser / unfollowUser are atomic: a call that fails, whichever
\* statement failed, leaves the Follow rows and every counter as they were before
\* the call; a call that succeeds has made the row change and both counter changes.
C5_FollowAtomic ==
    \A p \in Procs :
        LET a == arg[p][1]  b == arg[p][2]  k == <<arg[p][1], arg[p][2]>> IN
        /\ (pc[p] = "done" /\ op[p] \in FollowOps /\ res[p] # "ok") => DB = pre
        /\ (pc[p] = "done" /\ op[p] \in FollowOps /\ loc[p].at # "none") => res[p] = "DbError"
        /\ (Returned(p, "followUser") /\ res[p] = "ok") =>
              /\ follows[k] = pre.follows[k] + 1
              /\ users[a].following_count = pre.users[a].following_count + 1
              /\ users[b].follower_count = pre.users[b].follower_count + 1
        /\ (Returned(p, "unfollowUser") /\ res[p] = "ok") =>
              /\ follows[k] = pre.follows[k] - 1
              /\ users[a].following_count = pre.users[a].following_count - 1
              /\ users[b].follower_count = pre.users[b].follower_count - 1

\* C5 witness: a call failed inside its transaction after the second counter
\* update had been issued, and the store is as before the call
C5_Witness ==
    \E p \in Procs :
        /\ pc[p] = "done" /\ op[p] \in FollowOps /\ res[p] = "DbError"
        /\ loc[p].at \in {"txUpdFollowing", "txDecFollower"}
        /\ DB = pre

\* C7: for distinct existing users a, b a second followUser(a,b) right after a
\* first, successful one fails with the duplicate error and changes nothing,
\* exactly one Follow row (a,b) exists, and the counters were raised once.
C7_SecondFollowIsDuplicate ==
    \A p \in Procs :
        LET a == arg[p][1]  b == arg[p][2] IN
        (/\ Returned(p, "followUser")
         /\ prev.op = "followUser" /\ prev.arg = arg[p] /\ prev.res = "ok") =>
            /\ a # b /\ Exists2(DB, a, b)
            /\ res[p] = "Duplicate"
            /\ follows[<<a, b>>] = 1
            /\ DB = pre
            /\ users[a].following_count = prev.pre.users[a].following_count + 1
            /\ users[b].follower_count = prev.pre.users[b].follower_count + 1

\* C7 witness: the second of two followUser(a,b) calls has returned, the first succeeded
C7_Witness ==
    \E p \in Procs :
        /\ Returned(p, "followUser") /\ res[p] = "Duplicate"
        /\ prev.op = "followUser" /\ prev.arg = arg[p] /\ prev.res = "ok"

\* C8: followUser(a,a) fails with the self-reference error for every id a, existing
\* or not, inserts no Follow row and changes no counter.
C8_SelfFollowRejected ==
    \A p \in Procs :
        (Returned(p, "followUser") /\ arg[p][1] = arg[p][2]) =>
            res[p] = "SelfReference" /\ DB = pre

\* C8 witness: followUser(a,a) has returned for an id that names no user
C8_Witness ==
    \E p \in Procs :
        /\ Returned(p, "followUser") /\ arg[p][1] = arg[p][2]
        /\ arg[p][1] \notin DOMAIN users /\ res[p] = "SelfReference"

\* C9: for existing users a, b (a = b included) with no Follow row (a,b),
\* unfollowUser(a,b) fails with relationship-not-found and the Follow rows and
\* all counters are unchanged.
C9_UnfollowAbsentRejected ==
    \A p \in Procs :
        LET a == arg[p][1]  b == arg[p][2] IN
        (/\ Returned(p, "unfollowUser")
         /\ Exists2(pre, a, b) /\ pre.follows[<<a, b>>] = 0) =>
            res[p] = "RelationshipNotFound" /\ DB = pre

\* C9 witness: unfollowUser(a,a) has returned for an existing user a
C9_Witness ==
    \E p \in Procs :
        /\ Returned(p, "unfollowUser") /\ arg[p][1] = arg[p][2]
        /\ arg[p][1] \in DOMAIN users /\ res[p] = "RelationshipNotFound"

\* C10: for distinct existing users a, b with no Follow row (a,b), followUser(a,b)
\* succeeds, unfollowUser(a,b) right after it succeeds, and then the row is gone and
\* following_count(a), follower_count(b) are what they were before the followUser.
C10_FollowUnfollowRoundTrip ==
    \A p \in Procs :
        LET a == arg[p][1]  b == arg[p][2] IN
        /\ (/\ Returned(p, "followUser")
            /\ a # b /\ Exists2(pre, a, b) /\ pre.follows[<<a, b>>] = 0) =>
               res[p] = "ok" /\ follows[<<a, b>>] = 1
        /\ (/\ Returned(p, "unfollowUser")
            /\ prev.op = "followUser" /\ prev.arg = arg[p] /\ prev.res = "ok") =>
               /\ res[p] = "ok"
               /\ follows[<<a, b>>] = 0
               /\ users[a].following_count = prev.pre.users[a].following_count
               /\ users[b].follower_count = prev.pre.users[b].follower_count
               /\ follows = prev.pre.follows

\* C10 witness: unfollowUser(a,b) has succeeded right after a successful
\* followUser(a,b) that started from counters of 0
C10_Witness ==
    \E p \in Procs :
        /\ Returned(p, "unfollowUser") /\ res[p] = "ok"
        /\ prev.op = "followUser" /\ prev.arg = arg[p] /\ prev.res = "ok"
        /\ prev.pre.users[arg[p][1]].following_count = 0
        /\ users[arg[p][1]].following_count = 0

\* number of Like rows and of Comment rows referencing post i
LikeRows(i) == SumCounts(likes, {k \in LikeKeys : k[2] = i})
CommentRows(i) == Cardinality({n \in DOMAIN comments : comments[n].post_id = i})
\* number of Post rows owned by u
PostRows(u) == Cardinality({i \in DOMAIN posts : posts[i].user_id = u})

\* C2: after any sequence of likePost / unlikePost calls run one at a time, every
\* post's like_count is the number of Like rows referencing the post.
C2_LikeCountMatchesRows ==
    AllResting => \A i \in DOMAIN posts : posts[i].like_count = LikeRows(i)

\* C2 witness: an unlike has succeeded and a post still has a like
C2_Witness ==
    /\ \E p \in Procs : Returned(p, "unlikePost") /\ res[p] = "ok"
    /\ \E i \in DOMAIN posts : posts[i].like_count >= 1 /\ LikeRows(i) >= 1

\* C3: once concurrently run followUser / unfollowUser calls have all returned,
\* every user's following_count and follower_count equal the number of Follow
\* rows from and to that user, as after a one-at-a-time run.
C3_ConcurrentFollowCounters ==
    (\A p \in Procs : pc[p] # "idle" => pc[p] = "done") =>
        \A u \in DOMAIN users :
            /\ users[u].following_count = FollowingRows(u)
            /\ users[u].follower_count = FollowerRows(u)

\* the calls made so far are one per request, all returned, by different users,
\* each a likePost, unlikePost or createComment on post i
DifferentUsersOn(i) ==
    /\ AllResting
    /\ ncalls = Cardinality({p \in Procs : pc[p] = "done"})
    /\ \A p \in Procs : pc[p] = "done" =>
          op[p] \in {"likePost", "unlikePost", "createComment"} /\ arg[p][2] = i
    /\ \A p, q \in Procs : (pc[p] = "done" /\ pc[q] = "done" /\ p # q) => arg[p][1] # arg[q][1]

\* C4: once concurrently run likePost / unlikePost / createComment calls by
\* different users on one post have all returned, the post's like_count is its
\* number of Like rows and its comment_count its number of Comment rows.
C4_ConcurrentPostCounters ==
    \A i \in DOMAIN posts :
        DifferentUsersOn(i) =>
            /\ posts[i].like_count = LikeRows(i)
            /\ posts[i].comment_count = CommentRows(i)

\* C6: likePost, unlikePost, createComment and createPost are atomic: a call that
\* fails at any step leaves no row inserted or deleted without its counter
\* adjusted; the store is as before the call.
C6_PostOpsAtomic ==
    \A p \in Procs :
        (pc[p] = "done" /\ op[p] \in PostOps /\ res[p] # "ok") =>
            /\ DB = pre
            /\ \A i \in DOMAIN posts :
                  posts[i].like_count = LikeRows(i) /\ posts[i].comment_count = CommentRows(i)
            /\ \A u \in DOMAIN users : users[u].posts_count = PostRows(u)

\* the call of request p names, in store d, a user or a post that does not exist
MissingRef(p, d) ==
    \/ /\ op[p] \in WriteOps
       /\ arg[p][1] \notin DOMAIN d.users
    \/ /\ op[p] \in {"followUser", "unfollowUser", "sendDirectMessage"}
       /\ arg[p][2] \notin DOMAIN d.users
    \/ /\ op[p] \in {"likePost", "unlikePost", "createComment"}
       /\ arg[p][2] \notin DOMAIN d.posts

\* the call of request p fails a check the handler makes before it looks anything
\* up: follower = following, sender = receiver, no media url
RejectedOnInput(p) ==
    \/ op[p] \in {"followUser", "sendDirectMessage"} /\ arg[p][1] = arg[p][2]
    \/ op[p] \in {"createPost", "createStory"}
       /\ arg[p][3][1] \in {"null", ""} /\ arg[p][3][2] \in {"null", ""}

\* C11 (as stated): a write call that names a user or a post that does not exist
\* fails with the not-found error, and every table is as before the call.
C11_MissingAlwaysNotFound ==
    \A p \in Procs :
        (pc[p] = "done" /\ op[p] \in WriteOps /\ MissingRef(p, pre)) =>
            res[p] = "NotFound" /\ DB = pre

\* C11 (amended): a write call that names a user or a post that does not exist
\* fails and every table is as before the call; the error is the not-found error
\* unless the input itself is rejected first (self-reference, no media).
C11_MissingRejectedNoMutation ==
    \A p \in Procs :
        (pc[p] = "done" /\ op[p] \in WriteOps /\ MissingRef(p, pre)) =>
            /\ DB = pre
            /\ res[p] = IF RejectedOnInput(p)
                          THEN (IF op[p] \in {"followUser", "sendDirectMessage"}
                                  THEN "SelfReference" ELSE "Validation")
                          ELSE "NotFound"

\* C11 witness: a createComment naming a post that does not exist has returned
\* not-found, after an earlier call had stored something
C11_Witness ==
    \E p \in Procs :
        /\ Returned(p, "createComment") /\ arg[p][2] \notin DOMAIN posts
        /\ arg[p][1] \in DOMAIN users
        /\ res[p] = "NotFound" /\ DB = pre /\ DB # InitDB


\* C12: in every state, with followUser and likePost calls interleaved, no Follow
\* row has follower_id = following_id, no ordered (follower_id, following_id)
\* pair has more than one Follow row, and no (user_id, post_id) pair has more
\* than one Like row.
C12_EdgesUnique ==
    /\ \A k \in FollowKeys : follows[k] <= 1 /\ (k[1] = k[2] => follows[k] = 0)
    /\ \A k \in LikeKeys : likes[k] <= 1

\* C12 witness: a likePost that had passed the already-liked check was rejected by
\* the unique index, one Like row of its pair being stored
C12_Witness ==
    \E p \in Procs : /\ Returned(p, "likePost") /\ res[p] = "UniqueViolation"
                     /\ likes[LikeKey(p)] = 1


\* the requests of the running batch
InBatch == {p \in Procs : pc[p] # "idle"}

\* the batch is a race for one pair: at least two calls of the same create handler
\* with the same input, all returned, each having passed the existence pre-check
\* (none was turned away as not-found, self-reference or duplicate)
RaceFor(o) ==
    /\ Cardinality(InBatch) >= 2
    /\ \A p \in InBatch : pc[p] = "done" /\ op[p] = o
    /\ \A p, q \in InBatch : arg[p] = arg[q]
    /\ \A p \in InBatch : res[p] \notin {"NotFound", "SelfReference", "Duplicate"}

\* C13: when calls of likePost(u,p), or of followUser(a,b), for the same pair race,
\* all passing the existence pre-check before any of them inserts, exactly one
\* succeeds and the others fail on the unique index, exactly one row of the pair
\* is stored, and like_count(p), or following_count(a) and follower_count(b), is
\* one more than before the race.
C13_RaceOneWinner ==
    \A o \in CreateOps :
        RaceFor(o) =>
            \E w \in InBatch :
                LET a == arg[w][1]  b == arg[w][2] IN
                /\ res[w] = "ok"
                /\ \A p \in InBatch \ {w} : res[p] = "UniqueViolation"
                /\ o = "likePost" =>
                      /\ likes[<<a, b>>] = 1 /\ pre.likes[<<a, b>>] = 0
                      /\ posts[b].like_count = pre.posts[b].like_count + 1
                /\ o = "followUser" =>
                      /\ follows[<<a, b>>] = 1 /\ pre.follows[<<a, b>>] = 0
                      /\ users[a].following_count = pre.users[a].following_count + 1
                      /\ users[b].follower_count = pre.users[b].follower_count + 1

\* C13 witness: two likePost calls for one pair have raced on a post that was
\* liked before, one succeeded and one was rejected by the unique index
C13_Witness ==
    /\ RaceFor("likePost")
    /\ \E p, q \in InBatch : res[p] = "ok" /\ res[q] = "UniqueViolation"
                              /\ pre.posts[arg[p][2]].like_count = 1


\* C14: likePost(u,p) with a Like row (u,p) stored fails as already liked,
\* unlikePost(u,p) with no Like row (u,p) fails as like-not-found, and both leave
\* the Like rows and like_count(p) as they were; an unlikePost that succeeds right
\* after a successful likePost of the same pair puts like_count(p) back.
C14_LikeUnlikeErrorsAndRoundTrip ==
    \A p \in Procs :
        LET u == arg[p][1]  i == arg[p][2] IN
        /\ (/\ Returned(p, "likePost")
            /\ u \in DOMAIN pre.users /\ i \in DOMAIN pre.posts
            /\ pre.likes[<<u, i>>] > 0) =>
               res[p] = "Duplicate" /\ likes = pre.likes /\ posts = pre.posts
        /\ (/\ Returned(p, "unlikePost")
            /\ u \in DOMAIN pre.users /\ i \in DOMAIN pre.posts
            /\ pre.likes[<<u, i>>] = 0) =>
               res[p] = "RelationshipNotFound" /\ likes = pre.likes /\ posts = pre.posts
        /\ (/\ Returned(p, "unlikePost")
            /\ prev.op = "likePost" /\ prev.arg = arg[p] /\ prev.res = "ok") =>
               /\ res[p] = "ok"
               /\ posts[i].like_count = prev.pre.posts[i].like_count
               /\ likes = prev.pre.likes

\* C14 witness: an unlikePost has succeeded right after a successful likePost of
\* the same pair on a post another user likes
C14_Witness ==
    \E p \in Procs :
        /\ Returned(p, "unlikePost") /\ res[p] = "ok"
        /\ prev.op = "likePost" /\ prev.arg = arg[p] /\ prev.res = "ok"
        /\ posts[arg[p][2]].like_count = 1


\* the call of request p gives neither an image_url nor a video_url: each is null or empty
NoUrlGiven(p) == arg[p][3] \in ({"null", ""} \X {"null", ""})

\* C15: createPost and createStory with neither image_url nor video_url present
\* (each null or empty) fail with the validation error whatever the user_id, and
\* store nothing and change no posts_count; with a media url present and an
\* existing user they succeed and store the row.
C15_MediaValidation ==
    \A p \in Procs :
        LET a == arg[p][1] IN
        /\ (pc[p] = "done" /\ op[p] \in MediaOps /\ NoUrlGiven(p)) =>
               res[p] = "Validation" /\ DB = pre
        /\ (Returned(p, "createPost") /\ ~NoUrlGiven(p) /\ a \in DOMAIN pre.users) =>
               /\ res[p] = "ok"
               /\ posts = Append(pre.posts, NewPost(a))
        /\ (Returned(p, "createStory") /\ ~NoUrlGiven(p) /\ a \in DOMAIN pre.users) =>
               /\ res[p] = "ok"
               /\ Len(stories) = Len(pre.stories) + 1
               /\ stories[Len(stories)].user_id = a

\* C15 witness: a createStory with an empty image_url and no video_url, for an id
\* that names no user, has failed with the validation error after a story was stored
C15_Witness ==
    \E p \in Procs :
        /\ Returned(p, "createStory") /\ arg[p][3] = <<"", "null">>
        /\ arg[p][1] \notin DOMAIN users
        /\ res[p] = "Validation" /\ Len(stories) = 1


\* C16: with createPost and createComment calls run one at a time, between calls
\* every user's posts_count is the number of Post rows the user owns and every
\* post's comment_count the number of Comment rows on it; a successful createPost
\* raises posts_count of its user by 1 and no other counter, a successful
\* createComment raises comment_count of its post by 1 and no other counter.
C16_PostAndCommentCounters ==
    /\ AllResting =>
          /\ \A u \in DOMAIN users : users[u].posts_count = PostRows(u)
          /\ \A i \in DOMAIN posts : posts[i].comment_count = CommentRows(i)
    /\ \A p \in Procs :
          LET a == arg[p][1]  b == arg[p][2] IN
          /\ (Returned(p, "createPost") /\ res[p] = "ok") =>
                /\ users = [pre.users EXCEPT ![a].posts_count = @ + 1]
                /\ posts = Append(pre.posts, NewPost(a))
          /\ (Returned(p, "createComment") /\ res[p] = "ok") =>
                /\ users = pre.users
                /\ posts = [pre.posts EXCEPT ![b].comment_count = @ + 1]
                /\ Len(comments) = Len(pre.comments) + 1
                /\ SubSeq(comments, 1, Len(pre.comments)) = pre.comments
                /\ comments[Len(comments)].user_id = a
                /\ comments[Len(comments)].post_id = b

\* C16 witness: a comment has been stored on a post that createPost made
C16_Witness ==
    \E p \in Procs :
        /\ Returned(p, "createComment") /\ res[p] = "ok"
        /\ arg[p][2] = 2
        /\ posts[2].comment_count = 1 /\ users[posts[2].user_id].posts_count >= 1


\* C17: markMessageAsRead(message_id, user_id) succeeds exactly when the message
\* exists and user_id is its receiver_id, and then sets is_read of that message
\* alone; for any other user_id (the sender, an id that names no user) or a
\* message that does not exist it fails and no is_read changes. sendDirectMessage
\* changes no stored message.
C17_OnlyReceiverMarksRead ==
    \A p \in Procs :
        LET i == arg[p][1]  u == arg[p][2] IN
        /\ Returned(p, "markMessageAsRead") =>
              IF i \in DOMAIN pre.messages /\ pre.messages[i].receiver_id = u
                THEN /\ res[p] = "ok"
                     /\ messages = [pre.messages EXCEPT ![i].is_read = TRUE]
                ELSE /\ res[p] = "NotFound"
                     /\ messages = pre.messages
        /\ Returned(p, "sendDirectMessage") =>
              \A j \in DOMAIN pre.messages : messages[j] = pre.messages[j]

\* C17 witness: the sender of an unread message has called markMessageAsRead on
\* it, the call failed and the message is still unread
C17_Witness ==
    \E p \in Procs :
        /\ Returned(p, "markMessageAsRead") /\ arg[p][1] \in DOMAIN messages
        /\ messages[arg[p][1]].sender_id = arg[p][2]
        /\ res[p] = "NotFound" /\ ~messages[arg[p][1]].is_read

\* a step keeps every stored message that is read as read, and stores new messages unread
ReadFlagStep ==
    /\ \A i \in DOMAIN messages :
          i \in DOMAIN messages' /\ (messages[i].is_read => messages'[i].is_read)
    /\ \A i \in DOMAIN messages' \ DOMAIN messages : ~messages'[i].is_read

\* the receiver's markMessageAsRead of a message already read succeeds and leaves it read
MarkReadAgain ==
    \A p \in Procs :
        LET i == arg[p][1]  u == arg[p][2] IN
        (/\ Returned(p, "markMessageAsRead")
         /\ i \in DOMAIN pre.messages /\ pre.messages[i].receiver_id = u
         /\ pre.messages[i].is_read) =>
            res[p] = "ok" /\ messages = pre.messages

\* C18: the read flag only moves from unread to read: a message that
\* sendDirectMessage stores starts with is_read = false, no step changes is_read
\* from true to false, and markMessageAsRead of a message already read succeeds
\* and leaves it read.
C18_ReadFlagMonotone == [][ReadFlagStep]_vars /\ []MarkReadAgain

\* C18 witness: the receiver has marked a message read a second time
C18_Witness ==
    \E p \in Procs :
        /\ Returned(p, "markMessageAsRead") /\ res[p] = "ok"
        /\ arg[p][1] \in DOMAIN pre.messages /\ pre.messages[arg[p][1]].is_read
        /\ messages[arg[p][1]].is_read

\* C19: sendDirectMessage(sender, receiver) fails with the self-reference error
\* whenever sender = receiver, and with a not-found error when sender # receiver
\* and one of them does not exist; each failing call stores nothing, and every
\* stored message has sender_id # receiver_id.
C19_SendRejectsSelfAndMissing ==
    /\ \A i \in DOMAIN messages : messages[i].sender_id # messages[i].receiver_id
    /\ \A p \in Procs :
          LET a == arg[p][1]  b == arg[p][2] IN
          Returned(p, "sendDirectMessage") =>
              /\ a = b => res[p] = "SelfReference"
              /\ (a # b /\ ~Exists2(pre, a, b)) => res[p] = "NotFound"
              /\ res[p] # "ok" => DB = pre
              /\ res[p] = "ok" =>
                    messages = Append(pre.messages,
                                 [sender_id |-> a, receiver_id |-> b, is_read |-> FALSE,
                                  created_at |-> clock])

\* C19 witness: a sendDirectMessage from an id that names no user to itself has
\* failed with the self-reference error while a message is stored
C19_Witness ==
    \E p \in Procs :
        /\ Returned(p, "sendDirectMessage") /\ arg[p][1] = arg[p][2]
        /\ arg[p][1] \notin DOMAIN users
        /\ res[p] = "SelfReference" /\ Len(messages) >= 1


\* C20: getUserStories(u) returns exactly the stories of u whose expires_at is
\* strictly after the `now` the call sampled once, before its query (a story with
\* expires_at = now is left out), each once, newest created_at first; no story of
\* another user and no expired story is returned.
C20_UserStoriesActiveNewestFirst ==
    \A p \in Procs :
        Returned(p, "getUserStories") =>
            LET u == arg[p][1]
                now == loc[p].now
                out == loc[p].out
            IN  /\ res[p] = "ok"
                /\ now <= clock
                /\ {out[n] : n \in DOMAIN out} =
                      {i \in DOMAIN stories : stories[i].user_id = u /\ stories[i].expires_at > now}
                /\ \A m, n \in DOMAIN out : m # n => out[m] # out[n]
                /\ \A m, n \in DOMAIN out :
                      m < n => stories[out[m]].created_at >= stories[out[n]].created_at
                /\ DB = pre

\* C20 witness: a call returned a story of the user and left out another one of
\* the same user that expires at the very instant the call sampled
C20_Witness ==
    \E p \in Procs :
        /\ Returned(p, "getUserStories") /\ Len(loc[p].out) = 1
        /\ \E i \in DOMAIN stories :
              stories[i].user_id = arg[p][1] /\ stories[i].expires_at = loc[p].now


\* story i was in the store when a getUserStories call for its owner ran, and the
\* call did not return it
StoryMissed(i) ==
    \E p \in Procs :
        /\ Returned(p, "getUserStories") /\ i \in DOMAIN stories
        /\ stories[i].user_id = arg[p][1]
        /\ \A n \in DOMAIN loc[p].out : loc[p].out[n] # i
\* a getUserStories call returned story i
StoryGot(i) ==
    \E p \in Procs :
        Returned(p, "getUserStories") /\ \E n \in DOMAIN loc[p].out : loc[p].out[n] = i

\* at every return: a created story expires StoryLife hours after the instant t
\* its createStory call sampled, and a getUserStories call for the owner returns
\* a story exactly when the instant the call sampled is before the expiry
StoryLifeAtReturn ==
    \A p \in Procs :
        /\ (Returned(p, "createStory") /\ res[p] = "ok") =>
              LET s == stories[Len(stories)] IN
              /\ Len(stories) = Len(pre.stories) + 1
              /\ s.user_id = arg[p][1]
              /\ s.expires_at = loc[p].now + StoryLife
              /\ loc[p].now <= s.created_at /\ s.created_at <= clock
        /\ Returned(p, "getUserStories") =>
              \A i \in DOMAIN stories :
                  stories[i].user_id = arg[p][1] =>
                      ((\E n \in DOMAIN loc[p].out : loc[p].out[n] = i)
                          <=> loc[p].now < stories[i].expires_at)

\* the clock never goes back and a stored story keeps its expires_at
StoryStep ==
    /\ clock' >= clock
    /\ Len(stories') >= Len(stories)
    /\ \A i \in DOMAIN stories : stories'[i] = stories[i]

\* C21: a story created by createStory at the instant t gets expires_at = t + 24
\* hours; as the clock advances, getUserStories for its owner returns it at every
\* call instant before t + 24h and at no call instant at or after t + 24h, and a
\* story that a call has left out is never returned by a later call.
C21_StoryLifetime ==
    /\ []StoryLifeAtReturn
    /\ [][StoryStep]_vars
    /\ \A i \in 1..(MaxStories + 1) : [](StoryMissed(i) => []~StoryGot(i))

\* C21 witness: a getUserStories call returned a story, the clock reached the
\* story's expiry, and the next call for the same user left the story out
C21_Witness ==
    \E p \in Procs :
        /\ Returned(p, "getUserStories") /\ Len(loc[p].out) = 0
        /\ prev.op = "getUserStories" /\ prev.arg = arg[p] /\ Len(prev.out) = 1
        /\ stories[prev.out[1]].expires_at = loc[p].now


\* the stored value new of a field after an update that was given v for it
FieldAfter(new, old, v) == new = (IF v = "undefined" THEN old ELSE v)

\* what a successful updateUser(id, d) leaves: each field given is stored as given
\* (null included), each field absent is as before, updated_at is the instant
\* the call sampled, the counters and every other row are as before
UserUpdated(p) ==
    LET id == arg[p][1]  d == arg[p][3]  new == users[id]  old == pre.users[id] IN
    /\ FieldAfter(new.username, old.username, d[1])
    /\ FieldAfter(new.full_name, old.full_name, d[2])
    /\ FieldAfter(new.bio, old.bio, d[3])
    /\ FieldAfter(new.profile_image_url, old.profile_image_url, d[4])
    /\ FieldAfter(new.is_private, old.is_private, d[5])
    /\ new.updated_at = loc[p].now /\ loc[p].now <= clock
    /\ new.follower_count = old.follower_count
    /\ new.following_count = old.following_count
    /\ new.posts_count = old.posts_count
    /\ \A v \in DOMAIN users \ {id} : users[v] = pre.users[v]
    /\ [DB EXCEPT !.users = pre.users] = pre

\* the username given is held by another user when the call starts
NameClash(p) ==
    /\ arg[p][3][1] # "undefined"
    /\ \E v \in DOMAIN pre.users \ {arg[p][1]} : pre.users[v].username = arg[p][3][1]

\* C23 as stated: every updateUser call for an existing user sets the fields its
\* input gives (null where null is given), keeps the absent ones and sets
\* updated_at; a call for an id that names no user fails and changes nothing.
C23_UpdateSetsGivenFields ==
    \A p \in Procs :
        Returned(p, "updateUser") =>
            IF arg[p][1] \in DOMAIN pre.users
              THEN res[p] = "ok" /\ UserUpdated(p)
              ELSE res[p] = "NotFound" /\ DB = pre

\* C23: an updateUser call that succeeds changes exactly the fields its input
\* gives plus updated_at (absent keeps the stored value, null is stored as null, a
\* value is stored); a call for an id that names no user fails and changes
\* nothing, and so does a call that gives a username another user holds.
C23_UpdateSetsGivenFieldsUnlessNameTaken ==
    \A p \in Procs :
        Returned(p, "updateUser") =>
            IF arg[p][1] \notin DOMAIN pre.users
              THEN res[p] = "NotFound" /\ DB = pre
              ELSE IF NameClash(p)
                     THEN res[p] = "UniqueViolation" /\ DB = pre
                     ELSE res[p] = "ok" /\ UserUpdated(p)

\* C23 witness: a call that gave null for full_name and nothing for bio has
\* returned at a later instant than the row was last written: full_name is null,
\* bio is as it was, updated_at has moved
C23_Witness ==
    \E p \in Procs :
        /\ Returned(p, "updateUser") /\ res[p] = "ok"
        /\ arg[p][3][2] = "null" /\ arg[p][3][3] = "undefined"
        /\ users[arg[p][1]].full_name = "null" /\ pre.users[arg[p][1]].full_name = "old"
        /\ users[arg[p][1]].bio = "old"
        /\ users[arg[p][1]].updated_at > pre.users[arg[p][1]].updated_at


\* the counters of a store d: three of every user, two of every post
Counters(d) ==
    [users |-> [u \in DOMAIN d.users |->
                  <<d.users[u].follower_count, d.users[u].following_count,
                    d.users[u].posts_count>>],
     posts |-> [i \in DOMAIN d.posts |->
                  <<d.posts[i].like_count, d.posts[i].comment_count>>]]
\* the Comment rows of a store d: who commented on which post, by comment id
CommentEdges(d) == [n \in DOMAIN d.comments |-> <<d.comments[n].user_id, d.comments[n].post_id>>]

\* C22: updateUser, updatePost, updateComment, createStory, sendDirectMessage and
\* markMessageAsRead, whether they succeed or fail, leave the three counters of
\* every user and the two counters of every post as they were, and leave the
\* Follow, Like and Comment row sets as they were.
C22_EditsLeaveCountersAndEdges ==
    \A p \in Procs :
        (pc[p] = "done" /\ op[p] \in EditOps) =>
            /\ Counters(DB) = Counters(pre)
            /\ follows = pre.follows
            /\ likes = pre.likes
            /\ CommentEdges(DB) = CommentEdges(pre)
            /\ op[p] # "updateComment" => comments = pre.comments

\* C22 witness: updateComment has rewritten a comment of a post whose
\* comment_count is 1
C22_Witness ==
    \E p \in Procs :
        /\ Returned(p, "updateComment") /\ res[p] = "ok"
        /\ comments[arg[p][1]].content = "new" /\ pre.comments[arg[p][1]].content = "old"
        /\ posts[comments[arg[p][1]].post_id].comment_count = 1


\* out is a page (limit, offset) of the ids S of table t listed newest first: no
\* id twice, newest first, as long as the rows past the offset allow, and the
\* n-th element has offset+n-1 rows of S before it in some newest-first listing
IsPageOf(out, S, t, limit, offset) ==
    LET left == IF Cardinality(S) > offset THEN Cardinality(S) - offset ELSE 0 IN
    /\ \A n \in DOMAIN out : out[n] \in S
    /\ \A m, n \in DOMAIN out : m # n => out[m] # out[n]
    /\ \A m, n \in DOMAIN out : m < n => t[out[m]].created_at >= t[out[n]].created_at
    /\ Len(out) = (IF limit < left THEN limit ELSE left)
    /\ \A n \in DOMAIN out :
          /\ Cardinality({i \in S : t[i].created_at > t[out[n]].created_at}) <= offset + n - 1
          /\ Cardinality({i \in S \ {out[n]} : t[i].created_at >= t[out[n]].created_at})
                >= offset + n - 1

\* C24: getFeed(u) returns only posts whose author v has a Follow row (u,v) at
\* call time, newest created_at first, cut to the requested offset and limit; it
\* never returns a post of u; right after a successful unfollowUser(u,v) no post
\* of v is in u's feed.
C24_FeedOfFollowedNewestFirst ==
    \A p \in Procs :
        Returned(p, "getFeed") =>
            LET u == arg[p][1]
                out == loc[p].out
                S == {i \in DOMAIN posts : follows[<<u, posts[i].user_id>>] = 1}
            IN  /\ res[p] = "ok" /\ DB = pre
                /\ IsPageOf(out, S, posts, arg[p][3][1], arg[p][3][2])
                /\ \A n \in DOMAIN out : posts[out[n]].user_id # u
                /\ (prev.op = "unfollowUser" /\ prev.res = "ok" /\ prev.arg[1] = u) =>
                      \A n \in DOMAIN out : posts[out[n]].user_id # prev.arg[2]

\* C24 witness: user 2 follows user 1, who has two posts made at different
\* instants; the feed page of limit 1 at offset 1 holds the older of the two
C24_Witness ==
    \E p \in Procs :
        /\ Returned(p, "getFeed") /\ arg[p][3] = <<1, 1>>
        /\ Len(loc[p].out) = 1 /\ loc[p].out[1] = 1
        /\ Len(posts) >= 2 /\ posts[2].user_id = 1 /\ posts[2].created_at > posts[1].created_at


\* the rows a paged read selects from, and the table they are rows of
PageRows(o, a, b) ==
    IF o = "getUserPosts" THEN {i \in DOMAIN posts : posts[i].user_id = a}
    ELSE IF o = "getPostComments" THEN {n \in DOMAIN comments : comments[n].post_id = a}
    ELSE {n \in DOMAIN messages :
             {messages[n].sender_id, messages[n].receiver_id} = {a, b}}
PageTable(o) ==
    IF o = "getUserPosts" THEN posts ELSE IF o = "getPostComments" THEN comments ELSE messages

\* the elements of a sequence
Elems(s) == {s[n] : n \in DOMAIN s}

\* the call before p's was a read and asked the same handler about the same ids
SameReadBefore(p) ==
    /\ prev.op = op[p] /\ prev.res = "ok" /\ prev.pre = pre
    /\ prev.arg[1] = arg[p][1] /\ prev.arg[2] = arg[p][2]

\* C25: for getUserPosts, getPostComments and getConversation, with no write
\* between two calls, a call with (limit, offset) returns the elements at
\* positions offset .. offset+limit-1 of the full newest-first list: at most limit
\* elements, two pages with disjoint offset ranges share no element, and
\* consecutive pages that reach the end of the list together hold all of it.
C25_PagesPartitionTheList ==
    \A p \in Procs :
        (pc[p] = "done" /\ op[p] \in PageOps) =>
            LET S == PageRows(op[p], arg[p][1], arg[p][2])
                l == arg[p][3][1]
                o == arg[p][3][2]
            IN  /\ res[p] = "ok" /\ DB = pre
                /\ Len(loc[p].out) <= l
                /\ IsPageOf(loc[p].out, S, PageTable(op[p]), l, o)
                /\ SameReadBefore(p) =>
                      LET pl == prev.arg[3][1]
                          po == prev.arg[3][2]
                      IN  /\ (po + pl <= o \/ o + l <= po) =>
                                Elems(prev.out) \cap Elems(loc[p].out) = {}
                          /\ (po = 0 /\ o = pl /\ o + l >= Cardinality(S)) =>
                                Elems(prev.out) \cup Elems(loc[p].out) = S

\* C26: getConversation(a,b) and getConversation(b,a) with the same limit and
\* offset, with no write between them, return the same set of messages; every
\* message returned has {sender_id, receiver_id} = {a, b}, so none involves a
\* third user.
C26_ConversationSymmetric ==
    \A p \in Procs :
        Returned(p, "getConversation") =>
            LET a == arg[p][1]
                b == arg[p][2]
            IN  /\ res[p] = "ok" /\ DB = pre
                /\ \A n \in Elems(loc[p].out) :
                      {messages[n].sender_id, messages[n].receiver_id} = {a, b}
                /\ (/\ prev.op = "getConversation" /\ prev.res = "ok" /\ prev.pre = pre
                    /\ prev.arg[1] = b /\ prev.arg[2] = a /\ prev.arg[3] = arg[p][3]) =>
                      Elems(prev.out) = Elems(loc[p].out)


\* the call of process p ends in this step with result r
Ends(p, o, r) == pc[p] # "done" /\ pc'[p] = "done" /\ op[p] = o /\ res'[p] = r

\* one step of the store seen from the Follow edges: an edge is absent (0 rows) or
\* present (1 row); it appears only in the step that ends a followUser call for it
\* with success, disappears only in the step that ends an unfollowUser call for
\* it with success, and no step that ends a call with an error changes an edge
EdgeStep ==
    /\ \A k \in FollowKeys :
          /\ follows'[k] \in {0, 1}
          /\ (follows[k] = 0 /\ follows'[k] = 1) =>
                \E p \in Procs : Ends(p, "followUser", "ok") /\ FollowKey(p) = k
          /\ (follows[k] = 1 /\ follows'[k] = 0) =>
                \E p \in Procs : Ends(p, "unfollowUser", "ok") /\ FollowKey(p) = k
    /\ \A p \in Procs :
          (pc[p] # "done" /\ pc'[p] = "done" /\ res'[p] # "ok") => follows' = follows

\* what a returned call did to its edge, by the state of the edge when it was made
EdgeAtReturn ==
    \A p \in Procs :
        LET a == arg[p][1]  b == arg[p][2]  k == <<arg[p][1], arg[p][2]>> IN
        /\ (pc[p] = "done" /\ op[p] \in FollowOps /\ res[p] # "ok") => follows = pre.follows
        /\ (Returned(p, "followUser") /\ a # b /\ Exists2(pre, a, b)) =>
              /\ res[p] = "ok" <=> pre.follows[k] = 0
              /\ follows[k] = 1
        /\ (Returned(p, "unfollowUser") /\ a # b /\ Exists2(pre, a, b)) =>
              /\ res[p] = "ok" <=> pre.follows[k] = 1
              /\ follows[k] = 0
        /\ (pc[p] = "done" /\ op[p] \in FollowOps) =>
              \A j \in FollowKeys \ {k} : follows[j] = pre.follows[j]

\* C27: each Follow edge (a,b) is a two-state machine: it goes from absent to
\* present only by a successful followUser(a,b) and from present to absent only
\* by a successful unfollowUser(a,b); a failed call leaves every edge as it was;
\* for existing distinct users followUser(a,b) succeeds exactly when the edge is
\* absent and unfollowUser(a,b) succeeds exactly when it is present.
C27_FollowEdgeMachine == []EdgeAtReturn /\ [][EdgeStep]_vars

\* C27 witness: an edge has gone from absent to present and back: unfollowUser(a,b)
\* has succeeded right after followUser(a,b) had
C27_Witness ==
    \E p \in Procs :
        /\ Returned(p, "unfollowUser") /\ res[p] = "ok"
        /\ prev.op = "followUser" /\ prev.res = "ok"
        /\ prev.arg[1] = arg[p][1] /\ prev.arg[2] = arg[p][2]
        /\ prev.pre.follows[FollowKey(p)] = 0 /\ pre.follows[FollowKey(p)] = 1
        /\ follows[FollowKey(p)] = 0


\* C28: when two unfollowUser(a,b) calls for the same existing edge run
\* concurrently, both passing the existence check before the row is gone,
\* following_count(a) and follower_count(b) each go down by exactly 1 in total,
\* and at most one of the two calls reports success.
C28_ConcurrentUnfollowOnce ==
    \A p, q \in Procs :
        (/\ p # q /\ Returned(p, "unfollowUser") /\ Returned(q, "unfollowUser")
         /\ arg[p] = arg[q] /\ pre.follows[FollowKey(p)] = 1
         /\ res[p] # "RelationshipNotFound" /\ res[q] # "RelationshipNotFound") =>
            LET a == arg[p][1]  b == arg[p][2] IN
            /\ users[a].following_count = pre.users[a].following_count - 1
            /\ users[b].follower_count = pre.users[b].follower_count - 1
            /\ ~(res[p] = "ok" /\ res[q] = "ok")

\* C29: follower_count, following_count and posts_count of every user and
\* like_count and comment_count of every post are at least 0 in every reachable
\* state, concurrently interleaved calls included.
C29_CountersNonNegative ==
    /\ \A u \in DOMAIN users :
          /\ users[u].follower_count >= 0
          /\ users[u].following_count >= 0
          /\ users[u].posts_count >= 0
    /\ \A i \in DOMAIN posts :
          posts[i].like_count >= 0 /\ posts[i].comment_count >= 0


\* C30: a relationship operation touches only the counters of its own parents: a
\* successful followUser(a,b) raises, and a successful unfollowUser(a,b) lowers,
\* following_count of a and follower_count of b by 1 and changes no other counter
\* of any user or post; a successful likePost, unlikePost or createComment on
\* post p changes like_count, like_count or comment_count of p by 1 and nothing
\* else; a successful createPost by u raises posts_count of u by 1 and changes
\* nothing else.
C30_OnlyOwnParentsTouched ==
    \A p \in Procs :
        (pc[p] = "done" /\ res[p] = "ok"
           /\ op[p] \in {"followUser", "unfollowUser", "likePost", "unlikePost",
                         "createComment", "createPost"}) =>
            LET a == arg[p][1]
                b == arg[p][2]
                was == Counters(pre)
                now == Counters(DB)
                d == IF op[p] \in {"unfollowUser", "unlikePost"} THEN 0 - 1 ELSE 1
            IN  /\ op[p] \in {"followUser", "unfollowUser"} =>
                      /\ a # b
                      /\ now.users = [was.users EXCEPT ![a][2] = @ + d, ![b][1] = @ + d]
                      /\ now.posts = was.posts
                /\ op[p] \in {"likePost", "unlikePost"} =>
                      /\ now.users = was.users
                      /\ now.posts = [was.posts EXCEPT ![b][1] = @ + d]
                /\ op[p] = "createComment" =>
                      /\ now.users = was.users
                      /\ now.posts = [was.posts EXCEPT ![b][2] = @ + 1]
                /\ op[p] = "createPost" =>
                      /\ now.users = [was.users EXCEPT ![a][3] = @ + 1]
                      /\ now.posts = Append(was.posts, <<0, 0>>)

\* C30 witness: a likePost has succeeded right after a followUser had: the users
\* it left alone have counters that are not zero
C30_Witness ==
    \E p \in Procs :
        /\ Returned(p, "likePost") /\ res[p] = "ok"
        /\ prev.op = "followUser" /\ prev.res = "ok"
        /\ \E u \in DOMAIN users : users[u].following_count = 1
        /\ posts[arg[p][2]].like_count = 1

====
